---- MODULE Spec2Model ----
(***************************************************************************)
(* A model of the multi-port packet reader of udpPacketManager              *)
(* (lofar_udp_reader.c): setup, skip-to-packet alignment, the read step     *)
(* with its per-port workers, the step/kernel cycle and reader re-use.      *)
(*                                                                          *)
(* A packet is represented by its packet number (what                       *)
(* lofar_get_packet_number returns for its header); 0 is the packet number  *)
(* of a calloc'd (all-zero) slot.  Buffers are indexed in packet slots,     *)
(* offsets and read sizes are kept in bytes as in the source.  The input    *)
(* is the uncompressed (NORMAL) reader: one FILE per port.                  *)
(*                                                                          *)
(* Parts of the library that the reader model does not need are modelled    *)
(* by specifications of their own, each over one variable of its own        *)
(* (tr, own, chk, cli, hd) while the reader stays in its initial state;    *)
(* shf holds the arguments and the result of a call made on the reader's    *)
(* buffers.                                                                 *)
(***************************************************************************)
EXTENDS Integers, Sequences, FiniteSets, TLC

(* ------------------------------ bounds -------------------------------- *)
\* ports opened by a session (the source allows up to MAX_NUM_PORTS = 4)
MaxPorts == 2
\* largest configured packetsPerIteration
MaxPPI == 3
\* packets in the longest captured stream
MaxPackets == 7
\* a stream may end up to MaxCut packets early
MaxCut == 2
\* a loss-free stream may start up to MaxSkew packets late
MaxSkew == 1
\* packets Base+2 .. Base+1+MaxLossSpan may be lost
MaxLossSpan == 3
\* lofar_udp_file_reader_reuse calls per session
MaxReuse == 1
\* bytes per packet (portPacketLength, the same on every port)
PacketLength == 2

(* -------------------------- program constants ------------------------- *)
\* the epoch below which a starting packet means "no target"; packet
\* numbers of the model are counted from it
LFREPOCH == 10
\* LONG_MAX, scaled to the integers of the model
LONG_MAX == 1000000

VARIABLES
    numPorts,               \* meta->numPorts
    cfgPPI,                 \* reader->packetsPerIteration (configured)
    replayDroppedPackets,   \* meta->replayDroppedPackets
    stream,                 \* per port: the packet numbers held by the file
    filePos,                \* per port: bytes consumed from the file
    inputData,              \* meta->inputData[port], slots -2 .. cfgPPI-1
    inputDataOffset,        \* meta->inputDataOffset[port] (bytes)
    portLastDroppedPackets, \* meta->portLastDroppedPackets[port]
    packetsPerIteration,    \* meta->packetsPerIteration
    packetsRead,            \* meta->packetsRead
    packetsReadMax,         \* meta->packetsReadMax
    lastPacket,             \* meta->lastPacket
    inputDataReady,         \* meta->inputDataReady
    outputDataReady,        \* meta->outputDataReady
    pc,                     \* position of the driver thread
    call,                   \* the API call in progress and its arguments
    result,                 \* return value of the last finished API call
    rs,                     \* frame of lofar_udp_reader_read_step
    wpc,                    \* per port: position of the read worker
    charsToRead,            \* per port worker local
    charsRead,              \* per port worker local
    sk,                     \* frame of lofar_udp_skip_to_packet
    hist,                   \* observations of the call in progress
    tr,                     \* a NORMAL and a ZSTDCOMPRESSED session side by side
    own,                    \* what a session has allocated and released
    chk,                    \* a configuration handed to setup and its verdict
    cli,                    \* the command line extractor
    shf,                    \* a call of lofar_udp_shift_remainder_packets
    hd                      \* the first headers of the ports and what setup makes of them

vars == << numPorts, cfgPPI, replayDroppedPackets, stream, filePos, inputData,
           inputDataOffset, portLastDroppedPackets, packetsPerIteration,
           packetsRead, packetsReadMax, lastPacket, inputDataReady,
           outputDataReady, pc, call, result, rs, wpc, charsToRead, charsRead,
           sk, hist, tr, own, chk, cli, shf, hd >>

\* the variables of the reader model
readerVars == << numPorts, cfgPPI, replayDroppedPackets, stream, filePos,
                 inputData, inputDataOffset, portLastDroppedPackets,
                 packetsPerIteration, packetsRead, packetsReadMax, lastPacket,
                 inputDataReady, outputDataReady, pc, call, result, rs, wpc,
                 charsToRead, charsRead, sk, hist >>

\* what no action of the reader model changes
config == << numPorts, cfgPPI, replayDroppedPackets, stream, tr, own, chk, cli,
            shf, hd >>

\* the value of a variable that the specification at hand does not use
Off == [pc |-> "off"]

Ports == 0 .. (numPorts - 1)
Slots == -2 .. (cfgPPI - 1)
portPacketLength == [p \in 0 .. (MaxPorts - 1) |-> PacketLength]

Min(a, b) == IF a < b THEN a ELSE b
Max(a, b) == IF a > b THEN a ELSE b
\* C integer division (truncation toward zero)
CDiv(a, b) == IF a >= 0 THEN a \div b ELSE -((-a) \div b)

(* ------------------------------ streams ------------------------------- *)
Base == LFREPOCH + 1
FullStream(first, n) == [i \in 1 .. n |-> first + i - 1]
Without(s, lost) == SelectSeq(s, LAMBDA x : x \notin lost)
LossWindow == (Base + 2) .. (Base + 1 + MaxLossSpan)

LossFreeStreams ==
    { FullStream(Base + skew, n) :
        skew \in 0 .. MaxSkew, n \in (MaxPackets - MaxCut) .. MaxPackets }
LossyStreams ==
    { Without(FullStream(Base, MaxPackets), lost) : lost \in SUBSET LossWindow }

IsLossFree(s) == \A i \in 1 .. (Len(s) - 1) : s[i + 1] = s[i] + 1
LossFree == \A p \in Ports : IsLossFree(stream[p])

\* the packets of port p that the file still holds
FileLen(p) == Len(stream[p]) * portPacketLength[p]
Remaining(p) == FileLen(p) - filePos[p]

(* ------------------------- idle frame values -------------------------- *)
NoRs == [caller |-> "none", returnVal |-> 0, stepReturnVal |-> 0]
NoSk == [caller |-> "none", port |-> 0, lastPacketOffset |-> 0,
         currentPacket |-> 0, guessPacket |-> 0, startOff |-> 0, endOff |-> 0,
         nextOff |-> 0, packetShift |-> 0, returnVal |-> 0]
NoHist == [readSteps |-> 0, shifted |-> FALSE, didRead |-> FALSE,
           kernelRan |-> FALSE, readBefore |-> 0, ppiBefore |-> 0,
           hitEnd |-> FALSE, prevHitEnd |-> FALSE]
IdleW == [p \in Ports |-> "idle"]
ZeroW == [p \in Ports |-> 0]

(* --------------------- lofar_udp_shift_remainder_packets -------------- *)
\* memmove(&inputData[destOffset], &inputData[sourceOffset], byteShift)
MemMove(d, len, destOffset, sourceOffset, byteShift) ==
    [k \in Slots |->
        IF k * len >= destOffset /\ k * len < destOffset + byteShift
        THEN d[(sourceOffset + (k * len - destOffset)) \div len]
        ELSE d[k]]

\* the capped shift of one port (line 1783)
CappedShift(shiftP) == IF shiftP <= cfgPPI THEN shiftP ELSE cfgPPI

\* line 1836 without the guard packet in front of the window
ShiftEndOffset_NoGuard(destOffset, byteShift) == byteShift - destOffset

\* line 1810 taking the head of the window instead of its tail
ShiftSourceOffset_Head(len, mppi, packetShift, handlePadding) ==
    0 - len * handlePadding

\* sourceOffset of the memmove (line 1810)
ShiftSourceOffset(len, mppi, packetShift, handlePadding) ==
    len * (mppi - packetShift - handlePadding)

\* inputDataOffset after the shift of one port (line 1836)
ShiftEndOffset(destOffset, byteShift) == destOffset + byteShift

\* the body of the per-port loop (lines 1779-1841) for port p
ShiftPort(p, d, shiftP, handlePadding, mppi) ==
    LET len == portPacketLength[p]
        capped == CappedShift(shiftP)
    IN  IF ~(capped > 0 \/ handlePadding = 1)
        THEN [data |-> d, off |-> 0, ret |-> 0, ub |-> FALSE]
        ELSE IF capped < 0 /\ handlePadding = 0
        THEN [data |-> d, off |-> 0, ret |-> -1, ub |-> FALSE]
        ELSE
          LET packetShift == IF capped < 0 THEN 0 ELSE capped
              ret == IF capped < 0 THEN -1 ELSE 0
              sourceOffset == ShiftSourceOffset(len, mppi, packetShift, handlePadding)
              destOffset == -1 * len * handlePadding
              byteShift == (packetShift + handlePadding) * len
              outOfBounds == byteShift > 0 /\
                  (sourceOffset < -2 * len \/ sourceOffset + byteShift > cfgPPI * len
                    \/ destOffset + byteShift > cfgPPI * len)
              moved == IF outOfBounds THEN d
                       ELSE MemMove(d, len, destOffset, sourceOffset, byteShift)
              wiped == IF replayDroppedPackets = 0
                       THEN [moved EXCEPT ![-2] = 0] ELSE moved
          IN  [data |-> wiped, off |-> ShiftEndOffset(destOffset, byteShift),
               ret |-> ret, ub |-> outOfBounds]

\* lofar_udp_shift_remainder_packets(reader, shiftPackets, handlePadding) with
\* meta->packetsPerIteration = mppi: the new buffers, offsets and return value
RECURSIVE SumShift(_, _)
SumShift(shiftPackets, n) ==
    IF n = 0 THEN 0 ELSE shiftPackets[n - 1] + SumShift(shiftPackets, n - 1)

ShiftRemainder(shiftPackets, handlePadding, mppi) ==
    LET totalShift == SumShift(shiftPackets, numPorts)
    IN  IF totalShift < 1
        THEN [data |-> inputData, off |-> [p \in Ports |-> 0], ret |-> 0,
              ub |-> FALSE]
        ELSE
          LET r == [p \in Ports |->
                      ShiftPort(p, inputData[p], shiftPackets[p], handlePadding, mppi)]
          IN  [data |-> [p \in Ports |-> r[p].data],
               off |-> [p \in Ports |-> r[p].off],
               ret |-> IF \E p \in Ports : r[p].ret = -1 THEN -1 ELSE 0,
               ub |-> \E p \in Ports : r[p].ub]

(* ------------------------- lofar_udp_reader_nchars -------------------- *)
\* bytes fread() returns for a request of nchars bytes on port p (NORMAL
\* reader); a negative request is refused with -1
NcharsReturn(p, nchars) ==
    IF nchars < 0 THEN -1 ELSE Min(nchars, Remaining(p))

\* the read landing two packets in front of the offset, on the guard packets
Stored_OnGuard(p, d, off, got) ==
    LET len == portPacketLength[p]
        first == (off \div len) - 2
        n == got \div len
    IN  [k \in Slots |->
            IF k >= first /\ k < first + n
            THEN stream[p][(filePos[p] \div len) + (k - first) + 1]
            ELSE d[k]]

\* the buffer d of port p after got bytes of its file were stored at byte
\* offset off
Stored(p, d, off, got) ==
    LET len == portPacketLength[p]
        first == off \div len
        n == got \div len
    IN  [k \in Slots |->
            IF k >= first /\ k < first + n
            THEN stream[p][(filePos[p] \div len) + (k - first) + 1]
            ELSE d[k]]

\* a read of got bytes at byte offset off stays inside the allocation
InBuffer(p, off, got) ==
    got <= 0 \/ (off >= -2 * portPacketLength[p]
                 /\ off + got <= cfgPPI * portPacketLength[p])

(* ------------------------- lofar_udp_reader_read_step ----------------- *)
\* line 1559 with a strict comparison
CapReached_Strict(read, max, ppi) == read > (max - ppi)

\* the packet-cap test of line 1559
CapReached(read, max, ppi) == read >= (max - ppi)

\* where read_step returns to
AfterRead(caller) ==
    CASE caller = "setup" -> "setup_after_read"
      [] caller = "scan" -> "scan_after_read"
      [] caller = "step" -> "step_after_read"

\* lines 1546-1563: the work check, the reset of packetsPerIteration, the shift
\* of the remainder packets and the packet cap
ReadStepBegin ==
    /\ pc = "rs_begin"
    /\ IF packetsPerIteration = 0
       THEN /\ rs' = [rs EXCEPT !.returnVal = 1]
            /\ pc' = AfterRead(rs.caller)
            /\ UNCHANGED << inputData, inputDataOffset, packetsPerIteration, wpc >>
       ELSE LET sh == ShiftRemainder(portLastDroppedPackets, 1, cfgPPI)
                cap == CapReached(packetsRead, packetsReadMax, cfgPPI)
            IN  /\ inputData' = sh.data
                /\ inputDataOffset' = sh.off
                /\ packetsPerIteration' =
                      IF cap THEN packetsReadMax - packetsRead ELSE cfgPPI
                /\ rs' = [rs EXCEPT !.returnVal = IF cap THEN -2 ELSE 0]
                /\ IF sh.ub
                   THEN pc' = "ub" /\ wpc' = wpc
                   ELSE pc' = "rs_fanout" /\ wpc' = [p \in Ports |-> "check"]
    /\ hist' = [hist EXCEPT !.readSteps = Min(@ + 1, 9),
                            !.shifted = (packetsPerIteration # 0),
                            !.didRead = FALSE,
                            !.ppiBefore = packetsPerIteration']
    /\ UNCHANGED << config, filePos, portLastDroppedPackets, packetsRead,
                    packetsReadMax, lastPacket, inputDataReady, outputDataReady,
                    call, result, charsToRead, charsRead, sk >>

\* line 1573: a port whose deficit exceeds the window does not read
SkipsRead(dropped, ppi) == dropped > ppi

PortCheck(p) ==
    /\ pc = "rs_fanout"
    /\ wpc[p] = "check"
    /\ wpc' = [wpc EXCEPT ![p] =
                 IF SkipsRead(portLastDroppedPackets[p], packetsPerIteration)
                 THEN "done" ELSE "read"]
    /\ UNCHANGED << config, filePos, inputData, inputDataOffset,
                    portLastDroppedPackets, packetsPerIteration, packetsRead,
                    packetsReadMax, lastPacket, inputDataReady, outputDataReady,
                    pc, call, result, rs, charsToRead, charsRead, sk, hist >>

\* line 1577: the bytes a port requests
CharsToRead(p, ppi, dropped) == (ppi - dropped) * portPacketLength[p]

\* lines 1577-1580: request and read
PortRead(p) ==
    /\ pc = "rs_fanout"
    /\ wpc[p] = "read"
    /\ LET want == CharsToRead(p, packetsPerIteration, portLastDroppedPackets[p])
           got == NcharsReturn(p, want)
       IN  /\ charsToRead' = [charsToRead EXCEPT ![p] = want]
           /\ charsRead' = [charsRead EXCEPT ![p] = got]
           /\ IF InBuffer(p, inputDataOffset[p], got)
              THEN /\ inputData' = [inputData EXCEPT ![p] =
                          IF got > 0 THEN Stored(p, @, inputDataOffset[p], got) ELSE @]
                   /\ filePos' = [filePos EXCEPT ![p] = IF got > 0 THEN @ + got ELSE @]
                   /\ wpc' = [wpc EXCEPT ![p] = IF got < want THEN "crit" ELSE "done"]
                   /\ pc' = pc
              ELSE /\ pc' = "ub"
                   /\ UNCHANGED << inputData, filePos, wpc >>
    /\ hist' = [hist EXCEPT !.didRead = TRUE]
    /\ UNCHANGED << config, inputDataOffset, portLastDroppedPackets,
                    packetsPerIteration, packetsRead, packetsReadMax, lastPacket,
                    inputDataReady, outputDataReady, call, result, rs, sk >>

\* line 1585: the packets a short port can still contribute
PacketPerIter(p, got, dropped) == CDiv(got, portPacketLength[p]) + dropped

\* lines 1586-1603 overwriting instead of keeping the smaller value
NarrowedPPI_Last(ppi, packetPerIter) ==
    IF packetPerIter > 0 THEN packetPerIter ELSE 0

\* lines 1586-1603: the critical section of a short port
NarrowedPPI(ppi, packetPerIter) ==
    IF packetPerIter < ppi
    THEN (IF packetPerIter > 0 THEN packetPerIter ELSE 0)
    ELSE ppi

PortCritical(p) ==
    /\ pc = "rs_fanout"
    /\ wpc[p] = "crit"
    /\ packetsPerIteration' =
          NarrowedPPI(packetsPerIteration,
                      PacketPerIter(p, charsRead[p], portLastDroppedPackets[p]))
    /\ rs' = [rs EXCEPT !.returnVal = -3]
    /\ wpc' = [wpc EXCEPT ![p] = "done"]
    /\ UNCHANGED << config, filePos, inputData, inputDataOffset,
                    portLastDroppedPackets, packetsRead, packetsReadMax,
                    lastPacket, inputDataReady, outputDataReady, pc, call,
                    result, charsToRead, charsRead, sk, hist >>

\* the parallel loop released by the first worker to finish
WorkersDone_Any == \E p \in Ports : wpc[p] = "done"

\* the end of the parallel loop (its implicit barrier) and lines 1607-1609
WorkersDone == \A p \in Ports : wpc[p] = "done"

ReadStepEnd ==
    /\ pc = "rs_fanout"
    /\ WorkersDone
    /\ inputDataReady' = 1
    /\ pc' = AfterRead(rs.caller)
    /\ UNCHANGED << config, filePos, inputData, inputDataOffset,
                    portLastDroppedPackets, packetsPerIteration, packetsRead,
                    packetsReadMax, lastPacket, outputDataReady, call, result,
                    rs, wpc, charsToRead, charsRead, sk, hist >>

\* the worker locals go out of scope when read_step has returned
Quiesce == wpc' = IdleW /\ charsToRead' = ZeroW /\ charsRead' = ZeroW

(* ------------------------- lofar_udp_skip_to_packet ------------------- *)
\* lofar_get_packet_number(&inputData[p][byteOff]) for an offset inside the
\* allocation on a packet boundary
Addressable(p, byteOff) ==
    /\ byteOff % portPacketLength[p] = 0
    /\ (byteOff \div portPacketLength[p]) \in Slots
PacketAt(p, byteOff) == inputData[p][byteOff \div portPacketLength[p]]

\* The allocation of line 1113 ends with slot packetsPerIteration - 1.  A read
\* of the packet that follows it is outside the object: the build may fault,
\* or return whatever lies behind the buffer: a number below every packet
\* number, the very number searched for, or a number above every packet
\* number.  A read further away faults.
Fault == 0 - 1
OverRead == {0, lastPacket, LONG_MAX}
Probe(p, byteOff) ==
    IF Addressable(p, byteOff) THEN {PacketAt(p, byteOff)}
    ELSE IF byteOff = cfgPPI * portPacketLength[p] THEN OverRead \cup {Fault}
    ELSE {Fault}

\* where skip_to_packet returns to
AfterSkip(caller) == IF caller = "direct" THEN "after_skip" ELSE "after_align"

SkipReturn(v) ==
    /\ sk' = [NoSk EXCEPT !.caller = sk.caller, !.returnVal = v]
    /\ pc' = AfterSkip(sk.caller)

\* line 261 with the test on the first packet left out
BeyondTarget_Never(currentPacket, target) == FALSE

\* line 261: the target lies before the first packet held by a port
BeyondTarget(currentPacket, target) == currentPacket > target

\* lines 255-265: fail when a port already starts after the target
SkipCheck ==
    /\ pc = "sk_check"
    /\ IF \E p \in Ports : BeyondTarget(PacketAt(p, 0), lastPacket)
       THEN SkipReturn(1)
       ELSE pc' = "sk_init" /\ sk' = sk
    /\ UNCHANGED << config, filePos, inputData, inputDataOffset,
                    portLastDroppedPackets, packetsPerIteration, packetsRead,
                    packetsReadMax, lastPacket, inputDataReady, outputDataReady,
                    call, result, rs, wpc, charsToRead, charsRead, hist >>

\* lines 271-279: the deficit of a port before the scan
InitialDeficit(last, first, target, ppi) ==
    LET d == IF last >= target THEN ppi ELSE last - (first + ppi)
    IN  IF d < 0 THEN 0 ELSE d

\* lines 267-280
SkipInit ==
    /\ pc = "sk_init"
    /\ IF \A p \in Ports :
            Addressable(p, (packetsPerIteration - 1) * portPacketLength[p])
       THEN /\ portLastDroppedPackets' =
                  [p \in Ports |->
                      InitialDeficit(
                          PacketAt(p, (packetsPerIteration - 1) * portPacketLength[p]),
                          PacketAt(p, 0), lastPacket, packetsPerIteration)]
            /\ pc' = "sk_scan"
       ELSE /\ pc' = "ub"
            /\ UNCHANGED portLastDroppedPackets
    /\ sk' = [sk EXCEPT !.port = 0]
    /\ UNCHANGED << config, filePos, inputData, inputDataOffset,
                    packetsPerIteration, packetsRead, packetsReadMax, lastPacket,
                    inputDataReady, outputDataReady, call, result, rs, wpc,
                    charsToRead, charsRead, hist >>

\* lines 283-295: start the scan of the next port, or go on to the alignment
SkipScanPort ==
    /\ pc = "sk_scan"
    /\ IF sk.port >= numPorts
       THEN /\ pc' = "sk_align"
            /\ sk' = [sk EXCEPT !.port = 0]
       ELSE LET off == (packetsPerIteration - 1) * portPacketLength[sk.port]
            IN  IF Addressable(sk.port, off)
                THEN /\ sk' = [sk EXCEPT !.lastPacketOffset = off,
                                         !.currentPacket = PacketAt(sk.port, off)]
                     /\ pc' = "sk_while"
                ELSE /\ pc' = "ub"
                     /\ sk' = sk
    /\ UNCHANGED << config, filePos, inputData, inputDataOffset,
                    portLastDroppedPackets, packetsPerIteration, packetsRead,
                    packetsReadMax, lastPacket, inputDataReady, outputDataReady,
                    call, result, rs, wpc, charsToRead, charsRead, hist >>

\* line 303: the window of the scanned port still ends before the target
NeedsScan(currentPacket, target) == currentPacket < target

\* lines 303-310 and 343-348: read another window, or leave the loop
SkipScanWhile ==
    /\ pc = "sk_while"
    /\ IF NeedsScan(sk.currentPacket, lastPacket)
       THEN /\ pc' = "rs_begin"
            /\ rs' = [NoRs EXCEPT !.caller = "scan"]
            /\ sk' = sk
       ELSE /\ rs' = rs
            /\ IF BeyondTarget(PacketAt(sk.port, 0), lastPacket)
               THEN SkipReturn(1)
               ELSE /\ pc' = "sk_scan"
                    /\ sk' = [sk EXCEPT !.port = @ + 1]
    /\ UNCHANGED << config, filePos, inputData, inputDataOffset,
                    portLastDroppedPackets, packetsPerIteration, packetsRead,
                    packetsReadMax, lastPacket, inputDataReady, outputDataReady,
                    call, result, wpc, charsToRead, charsRead, hist >>

\* lines 317-330: the deficit of a port after a scan read
ScanDeficit(last, currentPacket, target, ppi) ==
    LET d == IF last >= target THEN ppi ELSE last - (currentPacket + ppi)
    IN  IF d < 0 THEN 0 ELSE d

\* lines 311-341: after the read of a scan iteration
ScanAfterRead ==
    /\ pc = "scan_after_read"
    /\ Quiesce
    /\ IF rs.returnVal > 0
       THEN /\ SkipReturn(rs.returnVal)
            /\ UNCHANGED portLastDroppedPackets
       ELSE IF \A p \in Ports : Addressable(p, sk.lastPacketOffset)
       THEN LET cur == PacketAt(sk.port, sk.lastPacketOffset)
                dropped == [p \in Ports |->
                              ScanDeficit(PacketAt(p, sk.lastPacketOffset), cur,
                                          lastPacket, packetsPerIteration)]
            IN  /\ portLastDroppedPackets' = dropped
                /\ sk' = [sk EXCEPT
                            !.currentPacket = cur,
                            !.returnVal =
                               IF \E p \in Ports : dropped[p] > packetsPerIteration
                               THEN -2 ELSE rs.returnVal]
                /\ pc' = "sk_while"
       ELSE /\ pc' = "ub"
            /\ UNCHANGED << portLastDroppedPackets, sk >>
    /\ rs' = NoRs
    /\ UNCHANGED << config, filePos, inputData, inputDataOffset,
                    packetsPerIteration, packetsRead, packetsReadMax, lastPacket,
                    inputDataReady, outputDataReady, call, result, hist >>

\* lines 361-364: the guard on the first guess
GuessBase(currentPacket, target, ppi) ==
    IF (target - currentPacket) > ppi \/ (target - currentPacket) < 0
    THEN CDiv(cfgPPI, 2) ELSE currentPacket

\* lines 353-391: the first guess for the next port, or the return
SkipAlign ==
    /\ pc = "sk_align"
    /\ IF sk.port >= numPorts
       THEN SkipReturn(sk.returnVal)
       ELSE
         LET port == sk.port
             len == portPacketLength[port]
             currentPacket == GuessBase(PacketAt(port, 0), lastPacket,
                                        packetsPerIteration)
         IN  \E guess \in Probe(port, (lastPacket - currentPacket) * len) :
               IF guess = Fault
               THEN pc' = "ub" /\ sk' = sk
               ELSE IF guess = lastPacket
               THEN /\ sk' = [sk EXCEPT !.currentPacket = currentPacket,
                                !.guessPacket = guess,
                                !.packetShift = packetsPerIteration
                                                - (lastPacket - currentPacket)]
                    /\ pc' = "sk_shift"
               ELSE
                 LET guess2 == IF guess > lastPacket THEN currentPacket ELSE guess
                     startOff == guess2 - currentPacket
                 IN  \E first \in Probe(port, startOff * len) :
                       IF first = Fault
                       THEN pc' = "ub" /\ sk' = sk
                       ELSE /\ sk' = [sk EXCEPT
                                       !.currentPacket = currentPacket,
                                       !.startOff = startOff,
                                       !.endOff = packetsPerIteration,
                                       !.nextOff = startOff,
                                       !.packetShift = startOff,
                                       !.guessPacket = first]
                            /\ pc' = "sk_search"
    /\ UNCHANGED << config, filePos, inputData, inputDataOffset,
                    portLastDroppedPackets, packetsPerIteration, packetsRead,
                    packetsReadMax, lastPacket, inputDataReady, outputDataReady,
                    call, result, rs, wpc, charsToRead, charsRead, hist >>

\* line 407: the next probe of the binary search
NextOff(startOff, endOff) == CDiv(startOff + endOff, 2)

\* the search gives up on targets past every packet the model holds
TargetLimit == Base + MaxPackets + MaxSkew + 2

\* lines 394-437: one iteration of the binary search, or its exit
SkipSearch ==
    /\ pc = "sk_search"
    /\ IF sk.guessPacket = lastPacket
       THEN /\ sk' = [sk EXCEPT !.packetShift = packetsPerIteration - sk.nextOff]
            /\ pc' = "sk_shift"
            /\ UNCHANGED lastPacket
       ELSE
         LET endOff == IF sk.endOff > cfgPPI \/ sk.endOff < 0
                       THEN cfgPPI ELSE sk.endOff
             startOff == IF sk.startOff > cfgPPI \/ sk.startOff < 0
                         THEN 0 ELSE sk.startOff
             nextOff == NextOff(startOff, endOff)
             port == sk.port
         IN  IF nextOff > packetsPerIteration
             THEN SkipReturn(1) /\ UNCHANGED lastPacket
             ELSE IF lastPacket >= TargetLimit
             THEN pc' = "diverged" /\ UNCHANGED << sk, lastPacket >>
             ELSE
               \E guess \in Probe(port, nextOff * portPacketLength[port]) :
                 IF guess = Fault
                 THEN pc' = "ub" /\ UNCHANGED << sk, lastPacket >>
                 ELSE
                   LET end2 == IF guess > lastPacket THEN nextOff - 1 ELSE endOff
                       start2 == IF guess < lastPacket THEN nextOff + 1
                                 ELSE startOff
                       lost == guess # lastPacket /\ start2 > end2
                   IN  /\ sk' = [sk EXCEPT
                                   !.guessPacket = guess,
                                   !.nextOff = nextOff,
                                   !.startOff = IF lost THEN start2 - 10 ELSE start2,
                                   !.endOff = IF lost THEN end2 + 10 ELSE end2]
                       /\ lastPacket' = IF lost THEN lastPacket + 1 ELSE lastPacket
                       /\ pc' = pc
    /\ UNCHANGED << config, filePos, inputData, inputDataOffset,
                    portLastDroppedPackets, packetsPerIteration, packetsRead,
                    packetsReadMax, inputDataReady, outputDataReady, call,
                    result, rs, wpc, charsToRead, charsRead, hist >>

\* line 450 letting a short refill pass
RefillFails_Never(nchars, returnLen) == FALSE

\* line 450: the stream did not fill the window
RefillFails(nchars, returnLen) == nchars > returnLen

\* lines 442-458: shift the port to the packet found and refill its window
SkipShift ==
    /\ pc = "sk_shift"
    /\ LET port == sk.port
           packetShift == [p \in Ports |-> IF p = port THEN sk.packetShift ELSE 0]
           sh == ShiftRemainder(packetShift, 0, packetsPerIteration)
           nchars == (packetsPerIteration - sk.packetShift) * portPacketLength[port]
           got == Min(nchars, Remaining(port))
       IN  IF sh.ub \/ (nchars > 0 /\ ~InBuffer(port, sh.off[port], got))
           THEN /\ pc' = "ub"
                /\ UNCHANGED << inputData, inputDataOffset, filePos, sk >>
           ELSE
             /\ inputDataOffset' = sh.off
             /\ IF nchars > 0
                THEN /\ inputData' =
                          [sh.data EXCEPT ![port] = Stored(port, @, sh.off[port], got)]
                     /\ filePos' = [filePos EXCEPT ![port] = @ + got]
                     /\ IF RefillFails(nchars, got)
                        THEN SkipReturn(1)
                        ELSE /\ sk' = [sk EXCEPT !.port = @ + 1, !.packetShift = 0,
                                                 !.returnVal = sh.ret]
                             /\ pc' = "sk_align"
                ELSE /\ inputData' = sh.data
                     /\ filePos' = filePos
                     /\ sk' = [sk EXCEPT !.port = @ + 1, !.packetShift = 0,
                                         !.returnVal = sh.ret]
                     /\ pc' = "sk_align"
    /\ UNCHANGED << config, portLastDroppedPackets, packetsPerIteration,
                    packetsRead, packetsReadMax, lastPacket, inputDataReady,
                    outputDataReady, call, result, rs, wpc, charsToRead,
                    charsRead, hist >>

(* -------------------- lofar_udp_get_first_packet_alignment ------------ *)
\* the largest of a and the packet numbers in s
RECURSIVE MaxOver(_, _)
MaxOver(a, s) ==
    IF s = {} THEN a
    ELSE LET x == CHOOSE y \in s : TRUE
         IN  MaxOver(Max(a, x), s \ {x})

\* lines 1716-1727: the target of the alignment pass
AlignmentTarget(target) == MaxOver(target, {PacketAt(p, 0) : p \in Ports})

\* lines 1712-1730: reset the drop counters, take the largest first packet as
\* the target and skip to it
GetFirstPacketAlignment ==
    /\ pc = "align"
    /\ portLastDroppedPackets' = [p \in Ports |-> 0]
    /\ lastPacket' = AlignmentTarget(lastPacket)
    /\ sk' = [NoSk EXCEPT !.caller = "align"]
    /\ pc' = "sk_check"
    /\ UNCHANGED << config, filePos, inputData, inputDataOffset,
                    packetsPerIteration, packetsRead, packetsReadMax,
                    inputDataReady, outputDataReady, call, result, rs, wpc,
                    charsToRead, charsRead, hist >>

(* ---------------- lofar_udp_file_reader_setup / _reuse ---------------- *)
\* a fatal return of the call in progress: setup cleans up and returns NULL,
\* reuse returns the value
FailCall(v) ==
    /\ pc' = IF call.op = "setup" THEN "null" ELSE "fatal"
    /\ result' = IF call.op = "setup" THEN 1 ELSE v

\* lines 617 and 690: a starting packet was given
HasTarget(target) == target > LFREPOCH

\* lines 607-623: after the first gulp of setup
SetupAfterRead ==
    /\ pc = "setup_after_read"
    /\ Quiesce
    /\ rs' = NoRs
    /\ IF rs.returnVal > 0
       THEN /\ FailCall(rs.returnVal)
            /\ UNCHANGED << inputDataReady, sk >>
       ELSE /\ inputDataReady' = 0
            /\ result' = result
            /\ IF HasTarget(lastPacket)
               THEN pc' = "sk_check" /\ sk' = [NoSk EXCEPT !.caller = "direct"]
               ELSE pc' = "align" /\ sk' = sk
    /\ UNCHANGED << config, filePos, inputData, inputDataOffset,
                    portLastDroppedPackets, packetsPerIteration, packetsRead,
                    packetsReadMax, lastPacket, outputDataReady, call, hist >>

\* lines 618-628 and 691-696: after the skip to the requested packet
AfterSkipDirect ==
    /\ pc = "after_skip"
    /\ sk' = NoSk
    /\ IF sk.returnVal > 0
       THEN FailCall(sk.returnVal)
       ELSE pc' = "align" /\ result' = result
    /\ UNCHANGED << config, filePos, inputData, inputDataOffset,
                    portLastDroppedPackets, packetsPerIteration, packetsRead,
                    packetsReadMax, lastPacket, inputDataReady, outputDataReady,
                    call, rs, wpc, charsToRead, charsRead, hist >>

\* line 1732 with the decrement left out
AlignedLastPacket_Kept(target) == target

\* line 1732: the packet before the one the alignment settled on
AlignedLastPacket(target) == target - 1

\* lines 1731-1732, then 629-635 (setup) or 697-703 (reuse)
AfterAlignment ==
    /\ pc = "after_align"
    /\ sk' = NoSk
    /\ lastPacket' = AlignedLastPacket(lastPacket)
    /\ IF sk.returnVal > 0
       THEN /\ FailCall(sk.returnVal)
            /\ UNCHANGED << packetsReadMax, inputDataReady, outputDataReady >>
       ELSE /\ pc' = "ready"
            /\ inputDataReady' = 1
            /\ IF call.op = "setup"
               THEN /\ result' = 0
                    /\ UNCHANGED << packetsReadMax, outputDataReady >>
               ELSE /\ result' = sk.returnVal
                    /\ packetsReadMax' = call.localMaxPackets
                    /\ outputDataReady' = 0
    /\ UNCHANGED << config, filePos, inputData, inputDataOffset,
                    portLastDroppedPackets, packetsPerIteration, packetsRead,
                    call, rs, wpc, charsToRead, charsRead, hist >>

\* lines 656 and 973: a negative maximum means no cap
LocalMaxPackets(max) == IF max < 0 THEN LONG_MAX ELSE max

\* line 675: the cap in force while reuse searches for its target
ReuseScanMax(startingPacket, last) == startingPacket - last + 2 * cfgPPI

\* lines 651-693: lofar_udp_file_reader_reuse up to its skip
ReuseBegin(startingPacket, max) ==
    /\ pc = "ready"
    /\ call.reuses < MaxReuse
    /\ call' = [op |-> "reuse", startingPacket |-> startingPacket,
                packetsReadMax |-> max,
                localMaxPackets |-> LocalMaxPackets(max),
                reuses |-> call.reuses + 1]
    /\ hist' = NoHist
    \* lines 665-670: finish filling the buffers after a partial read
    /\ LET refill == cfgPPI # packetsPerIteration
           got == [p \in Ports |->
                     IF refill
                     THEN NcharsReturn(p, cfgPPI * portPacketLength[p])
                     ELSE 0]
       IN  /\ inputData' = [p \in Ports |->
                               IF got[p] > 0
                               THEN Stored(p, inputData[p], 0, got[p])
                               ELSE inputData[p]]
           /\ filePos' = [p \in Ports |-> filePos[p] + got[p]]
    /\ packetsPerIteration' = cfgPPI
    /\ packetsRead' = 0
    /\ packetsReadMax' = ReuseScanMax(startingPacket, lastPacket)
    /\ lastPacket' = startingPacket
    /\ inputDataOffset' = [p \in Ports |-> 0]
    /\ portLastDroppedPackets' = [p \in Ports |-> 0]
    /\ inputDataReady' = 0
    /\ IF HasTarget(startingPacket)
       THEN pc' = "sk_check" /\ sk' = [NoSk EXCEPT !.caller = "direct"]
       ELSE pc' = "align" /\ sk' = sk
    /\ UNCHANGED << config, outputDataReady, result, rs, wpc, charsToRead,
                    charsRead >>

(* ------------------------- the processing kernel ---------------------- *)
\* the packets of port p the kernel finds missing (negative: out of order)
\* while it walks n logical packets that follow packet number last
RECURSIVE KernelDropped(_, _, _, _, _, _)
KernelDropped(d, iLoop, iWork, last, dropped, n) ==
    IF iLoop >= n THEN dropped
    ELSE IF d[iWork] = last + 1
    THEN KernelDropped(d, iLoop + 1, iWork + 1, d[iWork], dropped, n)
    ELSE IF d[iWork] < last
    THEN KernelDropped(d, iLoop + 1, iWork + 1, last, dropped - 1, n)
    ELSE KernelDropped(d, iLoop + 1, iWork, last + 1, dropped + 1, n)

KernelLastDropped ==
    [p \in Ports |->
        KernelDropped(inputData[p], 0, 0, lastPacket, 0, packetsPerIteration)]

\* the kernel leaves lastPacket at the last packet of the window it processed
KernelLastPacket(last, ppi) == last + ppi

\* the kernel marks the output as ready
KernelOutputDataReady == 1

\* the kernel reports packet loss with -1
KernelReturn(dropped) == IF \E p \in Ports : dropped[p] # 0 THEN 0 - 1 ELSE 0

(* ------------------------- lofar_udp_reader_step_timed ---------------- *)
\* line 1641 asking for a gulp in every step
NeedsRead_Always(inReady, outReady) == TRUE

\* line 1641: a new gulp is needed
NeedsRead(inReady, outReady) == inReady # 1 /\ outReady # 0

\* line 1666: there is an input window to process
NeedsKernel(outReady, ppi) == outReady # 1 /\ ppi > 0

\* lines 1623-1642: enter the step
StepBegin ==
    /\ pc = "ready"
    /\ call' = [call EXCEPT !.op = "step"]
    /\ hist' = [NoHist EXCEPT !.readBefore = packetsRead,
                              !.prevHitEnd = (call.op = "step" /\ hist.hitEnd)]
    /\ IF NeedsRead(inputDataReady, outputDataReady)
       THEN pc' = "rs_begin" /\ rs' = [NoRs EXCEPT !.caller = "step"]
       ELSE pc' = "kernel" /\ rs' = NoRs
    /\ UNCHANGED << config, filePos, inputData, inputDataOffset,
                    portLastDroppedPackets, packetsPerIteration, packetsRead,
                    packetsReadMax, lastPacket, inputDataReady, outputDataReady,
                    result, wpc, charsToRead, charsRead, sk >>

\* lines 1642-1653: after the gulp of a step
StepAfterRead ==
    /\ pc = "step_after_read"
    /\ Quiesce
    /\ hist' = [hist EXCEPT !.hitEnd =
                  \E p \in Ports : charsRead[p] < charsToRead[p] /\ charsRead[p] > 0]
    /\ IF rs.returnVal > 0
       THEN /\ pc' = "fatal"
            /\ result' = rs.returnVal
            /\ UNCHANGED outputDataReady
       ELSE /\ pc' = "kernel"
            /\ outputDataReady' = 0
            /\ result' = result
    /\ UNCHANGED << config, filePos, inputData, inputDataOffset,
                    portLastDroppedPackets, packetsPerIteration, packetsRead,
                    packetsReadMax, lastPacket, inputDataReady, call, rs, sk >>

\* line 1670 counting the configured window instead of the narrowed one
CountRead_Configured(read, ppi) == read + cfgPPI

\* line 1670: the packets read so far
CountRead(read, ppi) == read + ppi

\* lines 1666-1672: run the kernel on the window
Kernel ==
    /\ pc = "kernel"
    /\ pc' = "step_ret"
    /\ IF NeedsKernel(outputDataReady, packetsPerIteration)
       THEN LET dropped == KernelLastDropped
            IN  /\ portLastDroppedPackets' = dropped
                /\ lastPacket' = KernelLastPacket(lastPacket, packetsPerIteration)
                /\ outputDataReady' = KernelOutputDataReady
                /\ inputDataReady' = 0
                /\ packetsRead' = CountRead(packetsRead, packetsPerIteration)
                /\ rs' = [rs EXCEPT !.stepReturnVal = KernelReturn(dropped)]
                /\ hist' = [hist EXCEPT !.kernelRan = TRUE]
       ELSE UNCHANGED << portLastDroppedPackets, lastPacket, outputDataReady,
                         inputDataReady, packetsRead, rs, hist >>
    /\ UNCHANGED << config, filePos, inputData, inputDataOffset,
                    packetsPerIteration, packetsReadMax, call, result, wpc,
                    charsToRead, charsRead, sk >>

\* lines 1682-1684: return the worse of the two values
StepResult(readReturnVal, stepReturnVal) ==
    IF readReturnVal < stepReturnVal THEN readReturnVal ELSE stepReturnVal

StepReturn ==
    /\ pc = "step_ret"
    /\ pc' = "ready"
    /\ result' = StepResult(rs.returnVal, rs.stepReturnVal)
    /\ rs' = NoRs
    /\ UNCHANGED << config, filePos, inputData, inputDataOffset,
                    portLastDroppedPackets, packetsPerIteration, packetsRead,
                    packetsReadMax, lastPacket, inputDataReady, outputDataReady,
                    call, wpc, charsToRead, charsRead, sk, hist >>

(* ------------------------------ the model ----------------------------- *)
PPIs == 2 .. MaxPPI
SetupTargets == {-1} \cup (Base .. (Base + 3))
SetupCaps == {-1, 4}
\* the (startingPacket, packetsReadMax) pairs passed to reuse
ReuseArgs == { <<-1, -1>>, <<Base + 3, 4>>, <<Base + 3, 1>>, <<Base + 5, -1>> }

\* the state lofar_udp_meta_file_reader_setup_struct hands to
\* lofar_udp_file_reader_setup (lines 966-1121), about to gulp the first window
\* calloc of one port's input buffer: two guard packets and the window, all
\* zero bytes (line 1114)
InputBuffer(ppi) == [k \in -2 .. (ppi - 1) |-> 0]

InitWith(n, ppi, replay, streams, target, max) ==
    /\ numPorts = n
    /\ cfgPPI = ppi
    /\ replayDroppedPackets = replay
    /\ stream = streams
    /\ filePos = [p \in 0 .. (n - 1) |-> 0]
    /\ inputData = [p \in 0 .. (n - 1) |-> InputBuffer(ppi)]
    /\ inputDataOffset = [p \in 0 .. (n - 1) |-> 0]
    /\ portLastDroppedPackets = [p \in 0 .. (n - 1) |-> 0]
    /\ packetsPerIteration = ppi
    /\ packetsRead = 0
    /\ packetsReadMax = LocalMaxPackets(max)
    /\ lastPacket = target
    /\ inputDataReady = 0
    /\ outputDataReady = 0
    /\ pc = "rs_begin"
    /\ call = [op |-> "setup", startingPacket |-> target,
               packetsReadMax |-> max,
               localMaxPackets |-> LocalMaxPackets(max), reuses |-> 0]
    /\ result = 0
    /\ rs = [NoRs EXCEPT !.caller = "setup"]
    /\ wpc = [p \in 0 .. (n - 1) |-> "idle"]
    /\ charsToRead = [p \in 0 .. (n - 1) |-> 0]
    /\ charsRead = [p \in 0 .. (n - 1) |-> 0]
    /\ sk = NoSk
    /\ hist = NoHist

\* the reader in the state in which the other specifications leave it
ReaderOff == InitWith(1, 2, 0, [p \in {0} |-> FullStream(Base, 2)], -1, -1)

Init ==
    /\ tr = Off /\ own = Off /\ chk = Off /\ cli = Off /\ shf = Off /\ hd = Off
    /\ \E n \in 1 .. MaxPorts, ppi \in PPIs, target \in SetupTargets :
        \/ \E streams \in [0 .. (n - 1) -> LossFreeStreams], max \in SetupCaps :
              InitWith(n, ppi, 0, streams, target, max)
        \/ \E streams \in [0 .. (n - 1) -> LossyStreams], replay \in {0, 1} :
              InitWith(n, ppi, replay, streams, target, -1)

Next ==
    \/ ReadStepBegin
    \/ \E p \in Ports : PortCheck(p)
    \/ \E p \in Ports : PortRead(p)
    \/ \E p \in Ports : PortCritical(p)
    \/ ReadStepEnd
    \/ SkipCheck
    \/ SkipInit
    \/ SkipScanPort
    \/ SkipScanWhile
    \/ ScanAfterRead
    \/ SkipAlign
    \/ SkipSearch
    \/ SkipShift
    \/ GetFirstPacketAlignment
    \/ SetupAfterRead
    \/ AfterSkipDirect
    \/ AfterAlignment
    \/ \E a \in ReuseArgs : ReuseBegin(a[1], a[2])
    \/ StepBegin
    \/ StepAfterRead
    \/ Kernel
    \/ StepReturn

Spec == Init /\ [][Next]_vars

(* ------------------------------- claims ------------------------------- *)
\* the packet numbers port p captured
Numbers(p) == {stream[p][i] : i \in 1 .. Len(stream[p])}

\* no port lost a packet between its first one and packet t
IntactUpTo(t) ==
    \A p \in Ports : \A x \in stream[p][1] .. t : x \in Numbers(p)

\* the first packet of port p numbered t or more (0: there is none)
FirstAtLeast(p, t) ==
    LET later == {x \in Numbers(p) : x >= t}
    IN  IF later = {} THEN 0 ELSE CHOOSE x \in later : \A y \in later : x <= y

\* every slot of the window of port p follows the one before it
Consecutive(p) ==
    \A k \in 0 .. (packetsPerIteration - 1) : inputData[p][k] = inputData[p][0] + k

\* the last call was a reuse and it returned a non-fatal value
ReuseReturned == pc = "ready" /\ call.op = "reuse" /\ result <= 0

\* the cap a caller asks for with the argument max
RequestedCap(max) == IF max < 0 THEN LONG_MAX ELSE max

\* C1 as stated: after reuse(target, max) returns <= 0, for every input,
\* packetsRead is 0, lastPacket is target - 1 and packetsReadMax is max
\* (LONG_MAX when max is negative).
C1_AsStated ==
    ReuseReturned =>
        /\ packetsRead = 0
        /\ lastPacket = call.startingPacket - 1
        /\ packetsReadMax = RequestedCap(call.packetsReadMax)

\* C1: after reuse(target, max) returns <= 0, packetsRead is 0 and
\* packetsReadMax is max (LONG_MAX when max is negative) for every input;
\* lastPacket is never below target - 1, and is target - 1 when target is
\* above the epoch and no port lost a packet up to and including target.
C1_ReuseState ==
    ReuseReturned =>
        /\ packetsRead = 0
        /\ packetsReadMax = RequestedCap(call.packetsReadMax)
        /\ lastPacket >= call.startingPacket - 1
        /\ (call.startingPacket > LFREPOCH /\ IntactUpTo(call.startingPacket))
               => lastPacket = call.startingPacket - 1

C1_Witness ==
    /\ ReuseReturned
    /\ call.startingPacket > LFREPOCH
    /\ IntactUpTo(call.startingPacket)
    /\ ~LossFree
    /\ call.packetsReadMax >= 0
    /\ lastPacket = call.startingPacket - 1

\* setup or reuse with a target above the epoch returned a non-fatal value
AlignedToTarget ==
    /\ pc = "ready"
    /\ call.op \in {"setup", "reuse"}
    /\ result <= 0
    /\ call.startingPacket > LFREPOCH

\* C2: after setup or reuse with target T succeeds, index 0 of every port
\* holds the first packet of that port's stream numbered T or more, for any
\* loss pattern, including the loss of T on some ports.
C2_FirstAtLeastTarget ==
    AlignedToTarget =>
        \A p \in Ports : PacketAt(p, 0) = FirstAtLeast(p, call.startingPacket)

\* setup or a step returned a non-fatal value on loss-free streams
LossFreeWindow ==
    /\ LossFree
    /\ pc = "ready"
    /\ call.op \in {"setup", "step"}
    /\ result <= 0

\* C3: on loss-free streams, after setup and after every non-fatal step,
\* slot k of every port holds the packet numbered (packet of slot 0) + k for
\* every k below packetsPerIteration.
C3_ConsecutiveSlots ==
    LossFreeWindow => \A p \in Ports : Consecutive(p)

C3_Witness ==
    /\ LossFreeWindow
    /\ call.op = "step"
    /\ numPorts = MaxPorts
    /\ packetsPerIteration = 2
    /\ packetsRead > 2
    /\ \A p \in Ports : Consecutive(p) /\ PacketAt(p, 0) > stream[p][1]

\* the call in progress, or the last one to return, is a step
InStep == call.op = "step"

\* the step has returned, or is about to return, a non-fatal value
StepDone == InStep /\ (pc = "step_ret" \/ (pc = "ready" /\ result <= 0))

\* C4: within every step the shift completes on all ports before any port's
\* read begins, all reads complete before the kernel runs, and the kernel
\* completes before the step returns.
C4_StepOrder ==
    InStep =>
        /\ (hist.didRead \/ \E p \in Ports : wpc[p] \in {"read", "crit", "done"})
              => hist.shifted
        /\ pc = "step_after_read" => \A p \in Ports : wpc[p] \in {"done", "idle"}
        /\ (pc = "kernel" \/ hist.kernelRan) => \A p \in Ports : wpc[p] = "idle"
        /\ pc \in {"rs_begin", "rs_fanout", "step_after_read", "kernel"}
              => ~hist.kernelRan
        /\ (StepDone /\ hist.didRead /\ packetsPerIteration > 0) => hist.kernelRan

C4_Witness ==
    /\ StepDone
    /\ pc = "ready"
    /\ numPorts = MaxPorts
    /\ hist.shifted
    /\ hist.didRead
    /\ hist.kernelRan

\* read_step has returned to its caller
ReadStepReturned == pc \in {"setup_after_read", "scan_after_read", "step_after_read"}

\* C5: read_step ends with inputDataReady = 1; the read branch of a step sets
\* outputDataReady = 0; every non-fatal step that runs the kernel ends with
\* outputDataReady = 1, inputDataReady = 0 and packetsRead increased by
\* exactly the packetsPerIteration of that iteration.
C5_ReadyFlags ==
    /\ ReadStepReturned => inputDataReady = 1
    /\ (InStep /\ pc = "kernel" /\ hist.shifted) => outputDataReady = 0
    /\ (StepDone /\ hist.kernelRan) =>
          /\ outputDataReady = 1
          /\ inputDataReady = 0
          /\ packetsRead = hist.readBefore + packetsPerIteration

C5_Witness ==
    /\ StepDone
    /\ hist.shifted
    /\ hist.kernelRan
    /\ packetsPerIteration < cfgPPI
    /\ packetsRead = hist.readBefore + packetsPerIteration

\* read_step has applied the packet cap and no worker has run yet
CapApplied == pc = "rs_fanout" /\ \A p \in Ports : wpc[p] = "check"

\* C6 as stated: read_step flags the cap (-2) and lowers packetsPerIteration
\* to packetsReadMax - packetsRead exactly when packetsRead plus the
\* configured packetsPerIteration exceeds packetsReadMax; up to and including
\* equality the cap is not flagged and packetsPerIteration keeps the
\* configured value.
C6_AsStated ==
    CapApplied =>
        IF packetsRead + cfgPPI > packetsReadMax
        THEN rs.returnVal = -2 /\ packetsPerIteration = packetsReadMax - packetsRead
        ELSE rs.returnVal = 0 /\ packetsPerIteration = cfgPPI

\* C6: read_step flags the cap (-2) and sets packetsPerIteration to
\* packetsReadMax - packetsRead exactly when packetsRead plus the configured
\* packetsPerIteration reaches or exceeds packetsReadMax (at equality the cap
\* is flagged and packetsPerIteration keeps the configured value); below it
\* the cap is not flagged and packetsPerIteration keeps the configured value.
C6_CapAtOrBeyond ==
    CapApplied =>
        IF packetsRead + cfgPPI >= packetsReadMax
        THEN rs.returnVal = -2 /\ packetsPerIteration = packetsReadMax - packetsRead
        ELSE rs.returnVal = 0 /\ packetsPerIteration = cfgPPI

C6_Witness ==
    /\ CapApplied
    /\ call.op = "step"
    /\ packetsRead + cfgPPI = packetsReadMax
    /\ rs.returnVal = -2
    /\ packetsPerIteration = cfgPPI

\* the ports whose read came back short in the read_step that just ended
ShortPorts == {p \in Ports : charsRead[p] < charsToRead[p]}

\* the whole packets a short port read plus its dropped packets
Available(p) == (charsRead[p] \div portPacketLength[p]) + portLastDroppedPackets[p]

\* the smallest element of a non-empty set of integers
Least(S) == CHOOSE x \in S : \A y \in S : x <= y

\* C7 as stated: when at least one port returns short in a read_step, then
\* for every interleaving of the workers the final packetsPerIteration is the
\* minimum over the short ports of (whole packets read + lastDropped of the
\* port), it is not above its value before the reads, it is not negative,
\* and the result is -3.
C7_AsStated ==
    (ReadStepReturned /\ hist.shifted /\ ShortPorts # {}) =>
        /\ packetsPerIteration = Least({Available(p) : p \in ShortPorts})
        /\ packetsPerIteration <= hist.ppiBefore
        /\ packetsPerIteration >= 0
        /\ rs.returnVal = -3

\* C7: when at least one port returns short in a read_step, then for every
\* interleaving of the workers the final packetsPerIteration is the minimum
\* over the short ports of (whole packets read + lastDropped of the port),
\* or 0 when that minimum is negative; it is not above its value before the
\* reads, it is not negative, and the result is -3.
C7_ShortReadMinimum ==
    (ReadStepReturned /\ hist.shifted /\ ShortPorts # {}) =>
        /\ packetsPerIteration = Max(0, Least({Available(p) : p \in ShortPorts}))
        /\ packetsPerIteration <= hist.ppiBefore
        /\ packetsPerIteration >= 0
        /\ rs.returnVal = -3

C7_Witness ==
    /\ ReadStepReturned
    /\ hist.shifted
    /\ ShortPorts = Ports
    /\ numPorts = MaxPorts
    /\ \E p, q \in Ports : Available(p) < Available(q)
    /\ packetsPerIteration = Least({Available(p) : p \in ShortPorts})
    /\ packetsPerIteration > 0

\* C8: on loss-free streams of unequal length, where a port ends partway
\* through a window, the step whose read hits the end returns -3 with
\* packetsPerIteration narrowed to the whole packets available on the
\* shortest port, and the step after it returns a tolerable code (-3 or -2),
\* neither 0 nor a fatal one.
C8_EndOfStream ==
    (LossFree /\ InStep) =>
        /\ (pc = "step_after_read" /\ \E p \in ShortPorts : charsRead[p] > 0) =>
              /\ rs.returnVal = -3
              /\ packetsPerIteration =
                    Least({charsRead[p] \div portPacketLength[p] : p \in ShortPorts})
        /\ hist.hitEnd => (pc # "fatal" /\ (pc = "ready" => result = -3))
        /\ hist.prevHitEnd =>
              (pc # "fatal" /\ (pc = "ready" => result \in {-3, -2}))

\* skip_to_packet is entered while some port starts after the target
TargetInPast == pc = "sk_check" /\ \E p \in Ports : PacketAt(p, 0) > lastPacket

\* skip_to_packet has returned a fatal value to setup or reuse
SkipFailed == pc \in {"after_skip", "after_align"} /\ sk.returnVal > 0

C9_Step ==
    /\ TargetInPast =>
          /\ pc' = AfterSkip(sk.caller)
          /\ sk'.returnVal > 0
          /\ UNCHANGED << filePos, inputData, inputDataOffset,
                          portLastDroppedPackets, packetsPerIteration,
                          packetsRead, lastPacket, hist >>
    /\ SkipFailed => (pc' \in {"null", "fatal"} /\ result' > 0)

\* C9: skip_to_packet returns a fatal value (> 0) whenever the packet at
\* index 0 of some port is numbered above the target, before it reads or
\* shifts anything, and setup and reuse then fail with it.
C9_TargetInPast == [][C9_Step]_vars

\* setup fails on the first window, one port of which starts after the target
C9_Witness ==
    /\ SkipFailed
    /\ call.op = "setup"
    /\ numPorts = MaxPorts
    /\ \A p \in Ports : /\ PacketAt(p, 0) = stream[p][1]
                         /\ filePos[p] = cfgPPI * portPacketLength[p]
    /\ \E p \in Ports : PacketAt(p, 0) > lastPacket
    /\ \E p \in Ports : PacketAt(p, 0) <= lastPacket

\* setup on loss-free streams was asked for the packet that follows the
\* first window of a port
NextWindowTarget ==
    /\ LossFree
    /\ call.op = "setup"
    /\ \E p \in Ports : call.startingPacket = stream[p][1] + cfgPPI

\* C10: on loss-free streams, when the target is one more than the last
\* packet of the first window, the alignment succeeds after exactly one
\* more read_step and leaves the target at index 0 of every port.
C10_OneExtraRead ==
    NextWindowTarget =>
        /\ pc \notin {"null", "fatal", "ub", "diverged"}
        /\ hist.readSteps <= 2
        /\ pc = "ready" =>
              /\ result = 0
              /\ hist.readSteps = 2
              /\ \A p \in Ports : PacketAt(p, 0) = call.startingPacket

(* ------------- NORMAL and ZSTDCOMPRESSED sessions side by side -------- *)
\* One port, a loss-free stream, no target and no packet cap.  A byte of the
\* stream is represented by its position in the decompressed stream (1, 2,
\* ...); 0 is a byte no read has written.  The kernel is taken to find no
\* packet missing.
\* ZSTD_DStreamOutSize(), scaled to the windows of the model
ZSTD_DStreamOutSize == 5
\* most bytes one ZSTD_decompressStream call produces
MaxChunk == 4
\* steps taken after setup
MaxTrSteps == 5

\* lines 541-543: decompressionTracker.size for a window of ppi packets
DecompressionSize(ppi) ==
    (ppi * PacketLength) + ((ppi * PacketLength) % ZSTD_DStreamOutSize)

\* lines 1113-1114: the bytes of inputData[port] (the NORMAL reader is given
\* the same room and never touches the part behind its window)
TrBytes(ppi) == (0 - 2 * PacketLength) .. (DecompressionSize(ppi) - 1)

\* got bytes of the stream, which follow byte from, stored at offset off
TrStored(d, off, from, got) ==
    [k \in DOMAIN d |->
        IF k >= off /\ k < off + got THEN from + (k - off) + 1 ELSE d[k]]

\* line 1828: memmove(&inputData[destOffset], &inputData[sourceOffset], byteShift)
TrMemMove(d, destOffset, sourceOffset, byteShift) ==
    [k \in DOMAIN d |->
        IF k >= destOffset /\ k < destOffset + byteShift
        THEN d[sourceOffset + (k - destOffset)] ELSE d[k]]

\* a single ZSTD_decompressStream call in place of the loop
ZstdLoop_OneCall(dataRead, pos, avail, nchars, size) ==
    IF avail = 0 THEN {dataRead}
    ELSE LET room == Min(avail, size - pos)
         IN  IF room = 0 THEN {dataRead}
             ELSE { dataRead + c : c \in 1 .. Min(MaxChunk, room) }

\* lines 1477-1506: the values the decompression loop can return for a
\* request of nchars bytes, with dataRead bytes produced so far, the output
\* position pos, and avail bytes of the stream not yet decompressed
RECURSIVE ZstdLoop(_, _, _, _, _)
ZstdLoop(dataRead, pos, avail, nchars, size) ==
    IF avail = 0 THEN {dataRead}
    ELSE LET room == Min(avail, size - pos)
             chunks == IF room = 0 THEN {0} ELSE 1 .. Min(MaxChunk, room)
         IN  UNION { IF dataRead + c >= nchars \/ pos + c = size
                     THEN {dataRead + c}
                     ELSE ZstdLoop(dataRead + c, pos + c, avail - c, nchars, size)
                     : c \in chunks }

\* lines 1447-1506: the values lofar_udp_reader_nchars can return in session s
TrNchars(s, nchars, knownOffset, n) ==
    IF s.readerType = "NORMAL"
    THEN {Min(nchars, n - s.filePos)}
    ELSE ZstdLoop(0, knownOffset, n - s.filePos, nchars,
                  DecompressionSize(s.cfgPPI))

\* line 1769: the decompressor has written behind the window
FixBuffer(s) ==
    s.readerType = "ZSTDCOMPRESSED"
        /\ s.decompressionPos > PacketLength * s.cfgPPI

\* lines 1753-1844 with no packet to shift and handlePadding = 1: the last
\* packet goes to the padding slot and, for the compressed reader, the bytes
\* behind the window go to its start
TrShift(s) ==
    IF ~FixBuffer(s) THEN [s EXCEPT !.inputDataOffset = 0]
    ELSE LET sourceOffset == ShiftSourceOffset(PacketLength, s.cfgPPI, 0, 1)
             destOffset == 0 - PacketLength
             byteShift == PacketLength
                            + (s.decompressionPos - PacketLength * s.cfgPPI)
             moved == TrMemMove(s.inputData, destOffset, sourceOffset, byteShift)
         IN  [s EXCEPT !.inputData =
                          [k \in DOMAIN moved |->
                              IF k < 0 - PacketLength THEN 0 ELSE moved[k]],
                       !.decompressionPos = ShiftEndOffset(destOffset, byteShift),
                       !.inputDataOffset = ShiftEndOffset(destOffset, byteShift)]

\* lines 1543-1610 for one port: the sessions read_step can leave behind,
\* each with the value it returns in readReturnVal
TrReadStep(s, n) ==
    IF s.packetsPerIteration = 0 THEN {[s EXCEPT !.readReturnVal = 1]}
    ELSE LET sh == TrShift(s)
             want == CharsToRead(0, s.cfgPPI, 0)
         IN  { LET short == got < want
               IN  [sh EXCEPT
                      !.inputData = TrStored(sh.inputData, sh.inputDataOffset,
                                             sh.filePos, got),
                      !.filePos = sh.filePos + got,
                      !.decompressionPos =
                          IF sh.readerType = "NORMAL" THEN 0
                          ELSE sh.inputDataOffset + got,
                      !.packetsPerIteration =
                          IF short
                          THEN NarrowedPPI(s.cfgPPI, PacketPerIter(0, got, 0))
                          ELSE s.cfgPPI,
                      !.readReturnVal = IF short THEN -3 ELSE 0,
                      !.inputDataReady = 1]
               : got \in TrNchars(sh, want, sh.inputDataOffset, n) }

\* lines 1623-1685: the sessions a step can leave behind, with its return
\* value in ret
TrStepTimed(s, n) ==
    LET afterRead ==
            IF NeedsRead(s.inputDataReady, s.outputDataReady)
            THEN { IF r.readReturnVal > 0 THEN r
                   ELSE [r EXCEPT !.outputDataReady = 0] : r \in TrReadStep(s, n) }
            ELSE {[s EXCEPT !.readReturnVal = 0]}
    IN  { IF r.readReturnVal > 0 THEN [r EXCEPT !.ret = r.readReturnVal]
          ELSE IF NeedsKernel(r.outputDataReady, r.packetsPerIteration)
          THEN [r EXCEPT !.outputDataReady = KernelOutputDataReady,
                         !.packetsRead = CountRead(@, r.packetsPerIteration),
                         !.inputDataReady = 0,
                         !.ret = StepResult(r.readReturnVal, 0)]
          ELSE [r EXCEPT !.ret = StepResult(r.readReturnVal, 0)]
          : r \in afterRead }

\* the session lofar_udp_meta_file_reader_setup_struct hands over
\* (lines 1109-1121 and 541-545)
TrSession(type, ppi) ==
    [readerType |-> type, cfgPPI |-> ppi,
     inputData |-> [k \in TrBytes(ppi) |-> 0],
     inputDataOffset |-> 0, decompressionPos |-> 0, filePos |-> 0,
     packetsPerIteration |-> ppi, packetsRead |-> 0,
     inputDataReady |-> 0, outputDataReady |-> 0, readReturnVal |-> 0,
     ret |-> 0]

\* lines 607-635: the first gulp; the alignment of a single port neither
\* reads nor shifts
TrSetupSession(s, n) ==
    { IF r.readReturnVal > 0 THEN [r EXCEPT !.ret = 1]
      ELSE [r EXCEPT !.ret = 0, !.inputDataReady = 1] : r \in TrReadStep(s, n) }

TrInit ==
    /\ ReaderOff
    /\ own = Off /\ chk = Off /\ cli = Off /\ shf = Off /\ hd = Off
    /\ \E ppi \in PPIs, packets \in 2 .. MaxPackets :
          tr = [pc |-> "setup", bytes |-> packets * PacketLength, steps |-> 0,
                normal |-> TrSession("NORMAL", ppi),
                zstd |-> TrSession("ZSTDCOMPRESSED", ppi)]

\* the same setup on both sessions
TrSetup ==
    /\ tr.pc = "setup"
    /\ \E a \in TrSetupSession(tr.normal, tr.bytes),
          b \in TrSetupSession(tr.zstd, tr.bytes) :
          tr' = [tr EXCEPT !.normal = a, !.zstd = b,
                           !.pc = IF a.ret > 0 \/ b.ret > 0 THEN "over" ELSE "ready"]
    /\ UNCHANGED << readerVars, own, chk, cli, shf, hd >>

\* the same step on both sessions
TrStep ==
    /\ tr.pc = "ready"
    /\ tr.steps < MaxTrSteps
    /\ \E a \in TrStepTimed(tr.normal, tr.bytes),
          b \in TrStepTimed(tr.zstd, tr.bytes) :
          tr' = [tr EXCEPT !.normal = a, !.zstd = b, !.steps = @ + 1,
                           !.pc = IF a.ret > 0 \/ b.ret > 0 THEN "over" ELSE "ready"]
    /\ UNCHANGED << readerVars, own, chk, cli, shf, hd >>

TrNext == TrSetup \/ TrStep

SpecTransport == TrInit /\ [][TrNext]_vars

\* the bytes of the window of session s
TrWindow(s) ==
    [k \in 0 .. (s.packetsPerIteration * PacketLength - 1) |-> s.inputData[k]]

\* C11: on the same bytes and configuration a ZSTDCOMPRESSED and a NORMAL
\* session hold the same window, the same packetsPerIteration and the same
\* return code after setup and after every step, whatever the sizes in which
\* the decompressor produces its output.
C11_TransportsAgree ==
    tr.pc \in {"ready", "over"} =>
        /\ tr.zstd.ret = tr.normal.ret
        /\ tr.zstd.packetsPerIteration = tr.normal.packetsPerIteration
        /\ TrWindow(tr.zstd) = TrWindow(tr.normal)

\* the compressed session has decompressed its whole input
TrExhausted == tr.zstd.filePos = tr.bytes

MAX_NUM_PORTS == 4
UDPNPOL == 4
MaxMode == 166

NoCalibration == "NULL"

\* configurations that differ in what the checks look at
CheckConfigs ==
    [numPorts : {1, MAX_NUM_PORTS + 1},
     packetsPerIteration : {0, 1, 2},
     beamletLimits : {<< 0, 0 >>, << 1, 0 >>, << 0, 1 >>, << 1, 2 >>, << 2, 1 >>},
     processingMode : {0 - 1, 0, 1, 2},
     calibrateData : {0, 1},
     calibrationConfiguration : {NoCalibration, "nofifo", "set"},
     startingPacket : {0 - 1, LFREPOCH - 1, LFREPOCH + 1},
     packetsReadMax : {0 - 1, 0, 1, 3},
     replayDroppedPackets : {0, 2},
     inputBitMode : {8},
     inputsSane : BOOLEAN]

\* valid configurations of every processing mode
ModeConfigs ==
    [numPorts : {1, 2},
     packetsPerIteration : {2},
     beamletLimits : {<< 0, 0 >>},
     processingMode : (0 - 1) .. MaxMode,
     calibrateData : {0, 1},
     calibrationConfiguration : {"set"},
     startingPacket : {0 - 1},
     packetsReadMax : {3},
     replayDroppedPackets : {0},
     inputBitMode : {4, 8, 16},
     inputsSane : {TRUE}]

\* lofar_cli_extractor main, lines 281-296: the reason the command line is
\* refused, or "ok"
CliSanity(c) ==
    IF ~c.inputsSane THEN "inputs"
    ELSE IF c.numPorts <= 0 \/ c.numPorts > MAX_NUM_PORTS THEN "numPorts"
    ELSE IF c.packetsPerIteration < 2 THEN "packetsPerIteration"
    ELSE IF c.replayDroppedPackets > 1 \/ c.replayDroppedPackets < 0
    THEN "replayDroppedPackets"
    ELSE IF c.processingMode > 1000 \/ c.processingMode < 0 THEN "processingMode"
    ELSE "ok"

\* lines 481-484: the window is not larger than the packets asked for
CliPacketsPerIteration(ppi, maxPackets) ==
    IF ppi > maxPackets THEN maxPackets ELSE ppi

\* the beamlet limits are tested only when both are positive
BeamletLimitsSet(limits) == limits[1] > 0 /\ limits[2] > 0

\* head of lofar_udp_meta_file_reader_setup_struct: the reason the
\* configuration is refused, or "ok"
SetupStructCheck(c) ==
    IF c.numPorts > MAX_NUM_PORTS THEN "numPorts"
    ELSE IF c.packetsPerIteration < 1 THEN "packetsPerIteration"
    ELSE IF BeamletLimitsSet(c.beamletLimits)
            /\ c.beamletLimits[1] > c.beamletLimits[2]
    THEN "beamletOrder"
    ELSE IF BeamletLimitsSet(c.beamletLimits) /\ c.processingMode < 2
    THEN "beamletLimits"
    ELSE IF c.calibrateData # 0 /\ c.calibrationConfiguration = NoCalibration
    THEN "calibrationConfiguration"
    ELSE "ok"

\* lofar_udp_reader_config_check: the reason for a return of -1, or "ok"
ReaderConfigCheck(c) ==
    IF c.numPorts > MAX_NUM_PORTS THEN "numPorts"
    ELSE IF c.packetsPerIteration < 1 THEN "packetsPerIteration"
    ELSE IF BeamletLimitsSet(c.beamletLimits)
            /\ c.beamletLimits[1] > c.beamletLimits[2]
    THEN "beamletOrder"
    ELSE IF BeamletLimitsSet(c.beamletLimits) /\ c.processingMode < 2
    THEN "beamletLimits"
    ELSE IF c.calibrateData # 0 /\ c.calibrateData # 1 THEN "calibrateData"
    ELSE IF c.calibrateData # 0 /\ c.calibrationConfiguration = NoCalibration
    THEN "calibrationConfiguration"
    ELSE IF c.calibrationConfiguration = "nofifo" THEN "calibrationFifo"
    ELSE IF c.processingMode < 0 THEN "processingMode"
    ELSE IF c.startingPacket > 0 /\ c.startingPacket < LFREPOCH
    THEN "startingPacket"
    ELSE IF c.packetsReadMax < 1 THEN "packetsReadMax"
    ELSE IF c.replayDroppedPackets # 0 /\ c.replayDroppedPackets # 1
    THEN "replayDroppedPackets"
    ELSE "ok"

\* first switch of lofar_udp_setup_processing: the modes that pass
KnownModes ==
    (0 .. 1) \cup {2} \cup (10 .. 11) \cup (20 .. 21) \cup (30 .. 32)
        \cup (100 .. 104) \cup (110 .. 114) \cup (120 .. 124)
        \cup (130 .. 134) \cup (150 .. 154) \cup (160 .. 164)

\* a mode that is known to the first switch but has no case in the second
NoOutputs == 0

ProcessingOutputs_NoSplit(mode, ports) ==
    IF mode \in {0, 1} THEN ports
    ELSE IF mode \in {2, 11, 21, 31} THEN UDPNPOL
    ELSE IF mode \in {10, 20, 30, 32} THEN 1
    ELSE IF mode \in (100 .. 104) \cup (110 .. 114) \cup (120 .. 124) \cup (130 .. 134)
    THEN 1
    ELSE IF mode \in 150 .. 154 THEN 4
    ELSE IF mode \in 160 .. 164 THEN 2
    ELSE NoOutputs

\* second switch of lofar_udp_setup_processing: meta->numOutputs
ProcessingOutputs(mode, ports) ==
    IF mode \in {0, 1} THEN ports
    ELSE IF mode \in {2, 11, 21, 31} THEN UDPNPOL
    ELSE IF mode \in {10, 20, 30} THEN 1
    ELSE IF mode = 32 THEN 2
    ELSE IF mode \in {100, 110, 120, 130} THEN 1
    ELSE IF mode = 150 THEN 4
    ELSE IF mode = 160 THEN 2
    ELSE IF mode \in (101 .. 104) \cup (111 .. 114) \cup (121 .. 124) \cup (131 .. 134)
    THEN 1
    ELSE IF mode \in 151 .. 154 THEN 4
    ELSE IF mode \in 161 .. 164 THEN 2
    ELSE NoOutputs

\* second switch and the lines after it: meta->outputBitMode
ProcessingBitMode(mode, inputBitMode, calibrate) ==
    IF calibrate = 1 THEN 32
    ELSE IF mode \in {0, 1} THEN inputBitMode
    ELSE IF mode >= 100 THEN 32
    ELSE IF inputBitMode = 4 THEN 8
    ELSE inputBitMode

\* modes 0 and 1 switch the calibration off
ProcessingCalibrate(mode, calibrate) ==
    IF mode \in {0, 1} THEN 0 ELSE calibrate

\* lofar_udp_setup_processing on the meta data of configuration c
SetupProcessing(c, ports) ==
    LET mode == c.processingMode
        calibrate == ProcessingCalibrate(mode, c.calibrateData)
    IN  IF mode \notin KnownModes \/ ProcessingOutputs(mode, ports) = NoOutputs
        THEN [ret |-> 1, numOutputs |-> NoOutputs, outputBitMode |-> 0,
              calibrateData |-> c.calibrateData]
        ELSE [ret |-> 0, numOutputs |-> ProcessingOutputs(mode, ports),
              outputBitMode |-> ProcessingBitMode(mode, c.inputBitMode, calibrate),
              calibrateData |-> calibrate]

NoMeta == [ret |-> 0, numOutputs |-> NoOutputs, outputBitMode |-> 0, calibrateData |-> 0]

ChkInit ==
    /\ ReaderOff
    /\ tr = Off /\ own = Off /\ cli = Off /\ shf = Off /\ hd = Off
    /\ \E c \in CheckConfigs \cup ModeConfigs :
          chk = [pc |-> "config", config |-> c, viaCli |-> FALSE,
                 entry |-> "none", why |-> "none", packetsReadMax |-> 0,
                 meta |-> NoMeta]

\* lofar_cli_extractor main up to the call of the setup
ChkCli ==
    /\ chk.pc = "config"
    /\ chk.config.packetsReadMax >= 0
    /\ LET c == chk.config
           why == CliSanity(c)
       IN  chk' = IF why # "ok"
                  THEN [chk EXCEPT !.pc = "rejected", !.why = why, !.viaCli = TRUE,
                                   !.entry = "cli"]
                  ELSE [chk EXCEPT !.pc = "cli", !.viaCli = TRUE,
                                   !.config.packetsPerIteration =
                                       CliPacketsPerIteration(c.packetsPerIteration,
                                                              c.packetsReadMax)]
    /\ UNCHANGED << readerVars, tr, own, cli, shf, hd >>

\* head of lofar_udp_meta_file_reader_setup_struct
ChkSetupStruct ==
    /\ chk.pc \in {"config", "cli"}
    /\ LET why == SetupStructCheck(chk.config)
       IN  chk' = IF why # "ok"
                  THEN [chk EXCEPT !.pc = "rejected", !.why = why,
                                   !.entry = "setup_struct"]
                  ELSE [chk EXCEPT !.pc = "checked", !.entry = "setup_struct",
                                   !.packetsReadMax =
                                       LocalMaxPackets(chk.config.packetsReadMax)]
    /\ UNCHANGED << readerVars, tr, own, cli, shf, hd >>

\* head of lofar_udp_reader_setup
ChkReaderSetup ==
    /\ chk.pc = "config"
    /\ LET why == ReaderConfigCheck(chk.config)
       IN  chk' = IF why # "ok"
                  THEN [chk EXCEPT !.pc = "rejected", !.why = why,
                                   !.entry = "reader_setup"]
                  ELSE [chk EXCEPT !.pc = "checked", !.entry = "reader_setup",
                                   !.packetsReadMax =
                                       LocalMaxPackets(chk.config.packetsReadMax)]
    /\ UNCHANGED << readerVars, tr, own, cli, shf, hd >>

\* lofar_udp_setup_processing, called by either setup
ChkProcessing ==
    /\ chk.pc = "checked"
    /\ LET meta == SetupProcessing(chk.config, chk.config.numPorts)
       IN  chk' = IF meta.ret # 0
                  THEN [chk EXCEPT !.pc = "rejected", !.why = "setup_processing",
                                   !.meta = meta]
                  ELSE [chk EXCEPT !.pc = "accepted", !.meta = meta]
    /\ UNCHANGED << readerVars, tr, own, cli, shf, hd >>

ChkNext == ChkCli \/ ChkSetupStruct \/ ChkReaderSetup \/ ChkProcessing

SpecConfig == ChkInit /\ [][ChkNext]_vars

\* a setup returned a reader for the configuration
SetupAccepted == chk.pc = "accepted"

\* a setup returned no reader
SetupRejected == chk.pc = "rejected" /\ chk.entry \in {"setup_struct", "reader_setup"}

\* the numOutputs the mode table gives for an accepted mode
TableOutputs(mode, ports) ==
    IF mode \in {0, 1} THEN ports
    ELSE IF mode \in {2, 11, 21, 31} \cup (150 .. 154) THEN 4
    ELSE IF mode \in {32} \cup (160 .. 164) THEN 2
    ELSE 1

TableModes ==
    {0, 1, 2, 10, 11, 20, 21, 30, 31, 32} \cup (100 .. 104) \cup (110 .. 114)
        \cup (120 .. 124) \cup (130 .. 134) \cup (150 .. 154) \cup (160 .. 164)

\* C14: lofar_udp_setup_processing accepts exactly the modes of the table
\* and rejects every other one; for an accepted mode numOutputs is numPorts
\* (modes 0, 1), 4 (modes 2, 11, 21, 31, 150-154), 1 (modes 10, 20, 30,
\* 100-134) or 2 (modes 32, 160-164).
C14_ModeTable ==
    /\ SetupAccepted =>
          /\ chk.config.processingMode \in TableModes
          /\ chk.meta.numOutputs =
                 TableOutputs(chk.config.processingMode, chk.config.numPorts)
    /\ chk.why = "setup_processing" => chk.config.processingMode \notin TableModes

\* a mode of each group of the table was accepted, with two ports
C14_Witness ==
    /\ SetupAccepted
    /\ chk.config.processingMode = 32
    /\ chk.config.numPorts = 2
    /\ chk.meta.numOutputs = 2

\* C15: a setup returns no reader when packetsPerIteration is below 2, and
\* does not refuse packetsPerIteration = 2.
C15_PacketsPerIteration ==
    /\ SetupAccepted => chk.config.packetsPerIteration >= 2
    /\ chk.why = "packetsPerIteration" => chk.config.packetsPerIteration < 2

\* C16: a setup accepts a negative packetsReadMax and takes it as LONG_MAX.
C16_NegativeCapAccepted ==
    chk.config.packetsReadMax < 0 =>
        /\ chk.why # "packetsReadMax"
        /\ chk.pc \in {"checked", "accepted"} => chk.packetsReadMax = LONG_MAX

\* C17: a setup accepts every startingPacket below the LOFAR epoch, the
\* default -1 and the positive ones alike.
C17_BelowEpochAccepted ==
    chk.config.startingPacket < LFREPOCH => chk.why # "startingPacket"

\* C18: a setup returns no reader for beamletLimits other than (0,0), one
\* sided or not, together with processingMode 0 or 1.
C18_BeamletLimitsNeedMode2 ==
    SetupAccepted =>
        ~(/\ chk.config.beamletLimits # << 0, 0 >>
          /\ chk.config.processingMode \in {0, 1})

(* ----------- the session's allocations and the Jones matrices ---------- *)
\* This part follows the allocations of one session: the per-port input
\* buffers and input files, the output buffers and the table of Jones
\* matrices, through setup, steps, reuse and cleanup.  The read step and the
\* kernel are represented by their return codes.
MaxOwnPorts == 2
MaxTimesamples == 3
MaxOwnSteps == 3
TotalProcBeamlets == 2

\* what one run of the external generator does: the stage that fails (if
\* any) and the shape "<numTimesamples>,<numBeamlets>" it writes
CalFailures == {"none", "mkfifo", "waitpid", "header", "matrix", "remove"}

CalOutcomes ==
    [fail : CalFailures, numTimesamples : 1 .. MaxTimesamples,
     numBeamlets : {TotalProcBeamlets, TotalProcBeamlets + 1}]

\* the generation did not deliver usable matrices
CalFailed(o) == o.fail # "none" \/ o.numBeamlets # TotalProcBeamlets

NoJones == [table |-> << >>, rows |-> << >>]

\* free() of every allocation in ids: an allocation that is not live is
\* released a second time
OwnFree(s, ids) ==
    [s EXCEPT !.live = @ \ ids, !.doubleFreed = @ \cup (ids \ s.live)]

\* malloc of a table of n rows and calloc of each row
JonesAlloc(s, n) ==
    LET t == s.tables + 1
        rows == [i \in 1 .. n |-> << "jonesRow", t, i >>]
    IN  [s EXCEPT !.tables = t,
                  !.jonesMatrices = [table |-> << "jonesTable", t >>, rows |-> rows],
                  !.live = @ \cup {<< "jonesTable", t >>} \cup {rows[i] : i \in 1 .. n}]

\* rows first .. last - 1 (counted from 0 as in the source) of the table
JonesRows(s, first, last) ==
    {s.jonesMatrices.rows[i + 1] : i \in first .. (last - 1)}

\* the storage for numTimesamples time steps
JonesStorage(s, numTimesamples) ==
    IF s.jonesMatrices = NoJones
    THEN JonesAlloc(s, numTimesamples)
    ELSE IF numTimesamples > s.calibrationStepsGenerated
    THEN JonesAlloc(OwnFree(s, JonesRows(s, 0, s.calibrationStepsGenerated)
                                 \cup {s.jonesMatrices.table}),
                    numTimesamples)
    ELSE IF numTimesamples < s.calibrationStepsGenerated
    THEN OwnFree(s, JonesRows(s, s.calibrationStepsGenerated, numTimesamples))
    ELSE s

\* lofar_udp_reader_calibration with the generator behaving as o
Calibration(s, o) ==
    IF ~s.calibrateData
    THEN [s EXCEPT !.calRet = 1]
    ELSE IF o.fail \in {"mkfifo", "waitpid", "header"}
    THEN [s EXCEPT !.calRet = 1]
    ELSE IF o.numBeamlets # TotalProcBeamlets
    THEN [s EXCEPT !.calRet = 1]
    ELSE LET a == JonesStorage(s, o.numTimesamples)
         IN  IF o.fail = "remove"
             THEN [a EXCEPT !.calRet = 1]
             ELSE [a EXCEPT !.calRet = 0, !.calibrationStep = 0,
                            !.calibrationStepsGenerated = o.numTimesamples]

\* line 1629 looking at the calibration flag alone
NeedsCalibration_EveryStep(s) == s.calibrateData

\* a step needs new matrices
NeedsCalibration(s) ==
    s.calibrateData /\ s.calibrationStep >= s.calibrationStepsGenerated

\* the step gives up after a calibration that returned calRet
CalibrationAborts(readReturnVal, calRet) == readReturnVal > calRet

\* the kernel moves to the next Jones matrix
KernelCalibrationStep(s) ==
    IF s.calibrateData THEN s.calibrationStep + 1 ELSE s.calibrationStep

\* the fields of a packet header that the setup looks at: the clock bit,
\* the bit mode code and the station word
Headers == [clockBit : {0, 1}, bitMode : {0, 2}, stationID : {64}]

\* the processing modes of the sessions followed here
OwnModes == {1, 100}

\* lofar_udp_parse_headers: the sample width of a bit mode code
ParseBitMode(bitMode) ==
    IF bitMode = 0 THEN 16 ELSE IF bitMode = 1 THEN 8 ELSE 4

\* lofar_udp_parse_headers: the station of a station word
ParseStationID(word) == word \div 32

\* the header fields a session caches at setup, for the first packet h
CachedMeta(ports, mode, calibrate, h) ==
    [numPorts |-> ports,
     processingMode |-> mode,
     clockBit |-> h.clockBit,
     stationID |-> ParseStationID(h.stationID),
     inputBitMode |-> ParseBitMode(h.bitMode),
     outputBitMode |-> ProcessingBitMode(mode, ParseBitMode(h.bitMode),
                                         ProcessingCalibrate(mode, calibrate)),
     portPacketLength |-> [p \in 0 .. (ports - 1) |-> PacketLength]]

NoCached == [numPorts |-> 0]

\* a step that parsed the header h of its new window again
StepMeta_Reparsed(meta, h) ==
    [meta EXCEPT !.clockBit = h.clockBit,
                 !.inputBitMode = ParseBitMode(h.bitMode)]

\* the cached fields after a step whose new window starts with header h
StepMeta(meta, h) == meta

\* the cached fields after a reuse whose first window starts with header h
ReuseMeta(meta, h) == meta

\* the packet with header h differs from the one the session was set up on
HeaderDiffers(meta, h) ==
    h.clockBit # meta.clockBit \/ ParseBitMode(h.bitMode) # meta.inputBitMode

\* lofar_udp_reader_step_timed with the generator behaving as o, the read
\* step returning readRet and a window that starts with header h, and the
\* kernel returning stepRet
OwnStepTimed(s, o, readRet, stepRet, h) ==
    LET s0 == [s EXCEPT !.op = "step", !.ran = {}, !.calFailed = FALSE,
                        !.steps = @ + 1,
                        !.meta = StepMeta(@, h),
                        !.differed = @ \/ HeaderDiffers(s.meta, h)]
        c == IF NeedsCalibration(s0)
             THEN [Calibration(s0, o) EXCEPT !.ran = {"calibration"},
                                              !.calFailed = CalFailed(o)]
             ELSE s0
        r == IF NeedsRead(c.inputDataReady, c.outputDataReady)
             THEN [c EXCEPT !.ran = @ \cup {"read"}, !.inputDataReady = 1,
                            !.outputDataReady = 0]
             ELSE c
        readReturnVal == IF NeedsRead(c.inputDataReady, c.outputDataReady) THEN readRet ELSE 0
        k == IF NeedsKernel(r.outputDataReady, cfgPPI)
             THEN [r EXCEPT !.ran = @ \cup {"kernel"},
                            !.calibrationStep = KernelCalibrationStep(r),
                            !.outputDataReady = KernelOutputDataReady,
                            !.inputDataReady = 0]
             ELSE r
        stepReturnVal == IF NeedsKernel(r.outputDataReady, cfgPPI) THEN stepRet ELSE 0
    IN  IF NeedsCalibration(s0) /\ CalibrationAborts(0, c.calRet)
        THEN [c EXCEPT !.ret = 0]
        ELSE [k EXCEPT !.ret = IF readReturnVal < stepReturnVal
                               THEN readReturnVal ELSE stepReturnVal]

\* the allocations of the setup: one input buffer and one input file for
\* each port, one output buffer for each output
SetupAllocations(ports, outputs) ==
    {<< "inputData", p >> : p \in 0 .. (ports - 1)}
        \cup {<< "fileRef", p >> : p \in 0 .. (ports - 1)}
        \cup {<< "outputData", i >> : i \in 0 .. (outputs - 1)}

OwnInit ==
    /\ ReaderOff
    /\ tr = Off /\ chk = Off /\ cli = Off /\ shf = Off /\ hd = Off
    /\ \E ports \in 1 .. MaxOwnPorts, mode \in OwnModes, calibrate \in {0, 1},
          h \in Headers :
          own = [pc |-> "setup", op |-> "none", numPorts |-> ports,
                 numOutputs |-> 0,
                 config |-> [processingMode |-> mode, calibrateData |-> calibrate,
                             first |-> h],
                 meta |-> NoCached, differed |-> FALSE, reused |-> FALSE,
                 calibrateData |-> FALSE, live |-> {}, doubleFreed |-> {},
                 tables |-> 0, jonesMatrices |-> NoJones,
                 calibrationStep |-> 0, calibrationStepsGenerated |-> 0,
                 calRet |-> 0, calFailed |-> FALSE, ran |-> {}, ret |-> 0,
                 steps |-> 0, inputDataReady |-> 0, outputDataReady |-> 0]

\* lofar_udp_meta_file_reader_setup_struct: the cached header fields, the
\* processing mode and the buffers of the session
OwnSetup ==
    /\ own.pc = "setup"
    /\ LET c == own.config
           outputs == ProcessingOutputs(c.processingMode, own.numPorts)
       IN  own' = [own EXCEPT
                      !.pc = "ready", !.op = "setup",
                      !.meta = CachedMeta(own.numPorts, c.processingMode,
                                          c.calibrateData, c.first),
                      !.numOutputs = outputs,
                      !.calibrateData =
                          ProcessingCalibrate(c.processingMode, c.calibrateData) = 1,
                      !.live = SetupAllocations(own.numPorts, outputs),
                      !.inputDataReady = 1]
    /\ UNCHANGED << readerVars, tr, chk, cli, shf, hd >>

\* lofar_udp_reader_step
OwnStep ==
    /\ own.pc = "ready"
    /\ own.steps < MaxOwnSteps
    /\ \E o \in CalOutcomes, readRet \in {0, 0 - 3}, stepRet \in {0, 0 - 1},
          h \in Headers :
          own' = OwnStepTimed(own, o, readRet, stepRet, h)
    /\ UNCHANGED << readerVars, tr, chk, cli, shf, hd >>

\* lofar_udp_file_reader_reuse: the next step generates new matrices
OwnReuse ==
    /\ own.pc = "ready"
    /\ own.steps < MaxOwnSteps
    /\ \E h \in Headers :
          own' = [own EXCEPT !.calibrationStep = own.calibrationStepsGenerated + 1,
                             !.op = "reuse",
                             !.inputDataReady = 1, !.outputDataReady = 0,
                             !.ran = {}, !.calFailed = FALSE, !.ret = 0,
                             !.steps = @ + 1, !.reused = TRUE,
                             !.meta = ReuseMeta(@, h),
                             !.differed = @ \/ HeaderDiffers(own.meta, h)]
    /\ UNCHANGED << readerVars, tr, chk, cli, shf, hd >>

\* lofar_udp_reader_cleanup
OwnCleanup ==
    /\ own.pc = "ready"
    /\ LET held == {<< "outputData", i >> : i \in 0 .. (own.numOutputs - 1)}
                     \cup {<< "inputData", p >> : p \in 0 .. (own.numPorts - 1)}
                     \cup {<< "fileRef", p >> : p \in 0 .. (own.numPorts - 1)}
           jones == IF own.jonesMatrices # NoJones
                    THEN JonesRows(own, 0, own.calibrationStepsGenerated)
                             \cup {own.jonesMatrices.table}
                    ELSE {}
       IN  own' = [OwnFree(own, held \cup jones) EXCEPT !.pc = "cleaned"]
    /\ UNCHANGED << readerVars, tr, chk, cli, shf, hd >>

OwnNext == OwnSetup \/ OwnStep \/ OwnReuse \/ OwnCleanup

SpecOwnership == OwnInit /\ [][OwnNext]_vars

\* C12: after the cleanup of a session that was set up, whatever steps,
\* short reads, reuses and regenerations of the Jones matrices came before,
\* every input buffer, output buffer, input file and Jones-matrix row of the
\* session has been released, and none of them twice.
C12_CleanupReleasesAll ==
    own.pc = "cleaned" => own.live = {} /\ own.doubleFreed = {}

\* C19: after setup, through every step and reuse, the session's cached
\* clockBit, inputBitMode, outputBitMode, stationID, processingMode, numPorts
\* and portPacketLength are the values derived at setup from the first
\* packets.
C19_CachedHeaderKept ==
    own.pc = "ready" =>
        own.meta = CachedMeta(own.numPorts, own.config.processingMode,
                              own.config.calibrateData, own.config.first)

\* a session that was reused and stepped over packets whose headers differ
\* from the first one
C19_Witness ==
    /\ own.pc = "ready"
    /\ own.reused
    /\ own.differed
    /\ "read" \in own.ran
    /\ own.steps >= 3

\* C13: a step that needs new Jones matrices and whose generation fails
\* returns a fatal code and runs neither the read step nor the kernel.
C13_CalibrationFailureIsFatal ==
    (own.pc = "ready" /\ "calibration" \in own.ran /\ own.calFailed) =>
        /\ own.ret > 0
        /\ "read" \notin own.ran
        /\ "kernel" \notin own.ran

(* --------------------- the exit status of the extractor ---------------- *)
\* This part follows main of lofar_cli_extractor from the call of the setup
\* to its return; the library calls are represented by their return values.
MaxEvents == 2
MaxCliSteps == 2

\* what a step may return: 0, the packet-loss code -1, the end codes -2 and
\* -3, and a fatal code
StepReturns == {0, 0 - 1, 0 - 2, 0 - 3, 1}

\* the return value keeps the read loop of an event going
CliLoopContinues(returnVal) == returnVal < 1

\* the return value ends the event from inside the loop
CliLoopBreaks(returnVal) == returnVal < 0 - 1

CliInit ==
    /\ ReaderOff
    /\ tr = Off /\ own = Off /\ chk = Off /\ shf = Off /\ hd = Off
    /\ \E n \in 1 .. MaxEvents :
          cli = [pc |-> "setup", eventCount |-> n, eventLoop |-> 0, loops |-> 0,
                 localLoops |-> 0, returnVal |-> 0, fatal |-> FALSE,
                 status |-> 0 - 1]

\* lines 497-512: the setup and the test of the clock bit
CliSetup ==
    /\ cli.pc = "setup"
    /\ \E reader \in {"NULL", "reader"}, clockBitMatches \in BOOLEAN :
          cli' = IF reader = "NULL"
                 THEN [cli EXCEPT !.pc = "exit", !.status = 1, !.fatal = TRUE]
                 ELSE IF ~clockBitMatches
                 THEN [cli EXCEPT !.pc = "exit", !.status = 1]
                 ELSE [cli EXCEPT !.pc = "event"]
    /\ UNCHANGED << readerVars, tr, own, chk, shf, hd >>

\* lines 562-635: the head of the loop over the events
CliEvent ==
    /\ cli.pc = "event"
    /\ cli.eventLoop < cli.eventCount
    /\ \E reuseVal \in {0, 1}, outputOpens \in BOOLEAN :
          LET reused == cli.loops # 0
          IN  cli' = IF reused /\ reuseVal > 0
                     THEN [cli EXCEPT !.pc = "exit", !.status = 1, !.fatal = TRUE,
                                      !.returnVal = reuseVal]
                     ELSE IF ~outputOpens
                     THEN [cli EXCEPT !.pc = "exit", !.status = 1]
                     ELSE [cli EXCEPT !.pc = "loop", !.localLoops = 0,
                                      !.returnVal = IF reused THEN reuseVal ELSE @]
    /\ UNCHANGED << readerVars, tr, own, chk, shf, hd >>

\* lines 637-685: one pass of the read loop of the event
CliStep ==
    /\ cli.pc = "loop"
    /\ \E returnVal \in StepReturns :
          /\ cli.localLoops >= MaxCliSteps => returnVal \notin {0, 0 - 1}
          /\ cli' = IF ~CliLoopContinues(returnVal)
                    THEN [cli EXCEPT !.pc = "event", !.eventLoop = @ + 1,
                                     !.returnVal = returnVal, !.fatal = TRUE]
                    ELSE IF CliLoopBreaks(returnVal)
                    THEN [cli EXCEPT !.pc = "event", !.eventLoop = @ + 1,
                                     !.returnVal = returnVal, !.loops = @ + 1,
                                     !.localLoops = @ + 1]
                    ELSE [cli EXCEPT !.returnVal = returnVal, !.loops = @ + 1,
                                     !.localLoops = @ + 1]
    /\ UNCHANGED << readerVars, tr, own, chk, shf, hd >>

\* lines 700-732: the summary, the cleanup and the return
CliFinish ==
    /\ cli.pc = "event"
    /\ cli.eventLoop >= cli.eventCount
    /\ cli' = [cli EXCEPT !.pc = "exit", !.status = 0]
    /\ UNCHANGED << readerVars, tr, own, chk, shf, hd >>

CliNext == CliSetup \/ CliEvent \/ CliStep \/ CliFinish

SpecCli == CliInit /\ [][CliNext]_vars

\* C20: the extractor exits with status 1 whenever the setup, a reuse or a
\* step reported a fatal error, and with status 0 only when every event was
\* processed without one.
C20_ExitStatus ==
    cli.pc = "exit" =>
        /\ cli.fatal => cli.status = 1
        /\ cli.status = 0 => ~cli.fatal /\ cli.eventLoop = cli.eventCount

(* ------------------- when the Jones matrices are made ------------------ *)
\* the matrices have run out at the start of a step (line 1629)
MatricesDue ==
    own.calibrateData /\ own.calibrationStep >= own.calibrationStepsGenerated

ShiftValues == (0 - MaxPPI) .. (MaxPPI + 2)

\* a buffer in which every slot holds another packet (slot -2 included, as
\* after a run with replayed packets)
WindowAt(p) == [k \in -2 .. (cfgPPI - 1) |-> 10 * (p + 1) + (k + 3)]

ShInit ==
    /\ tr = Off /\ own = Off /\ chk = Off /\ cli = Off /\ hd = Off
    /\ numPorts \in 1 .. MaxPorts
    /\ cfgPPI \in PPIs
    /\ replayDroppedPackets \in {0, 1}
    /\ stream = [p \in Ports |-> FullStream(Base, 2)]
    /\ filePos = [p \in Ports |-> 0]
    /\ inputData = [p \in Ports |-> WindowAt(p)]
    /\ inputDataOffset = [p \in Ports |-> 0]
    /\ portLastDroppedPackets = [p \in Ports |-> 0]
    /\ packetsPerIteration = cfgPPI
    /\ packetsRead = cfgPPI
    /\ packetsReadMax = LONG_MAX
    /\ lastPacket = -1
    /\ inputDataReady = 0
    /\ outputDataReady = 1
    /\ pc = "ready"
    /\ call = [op |-> "setup", startingPacket |-> -1, packetsReadMax |-> -1,
               localMaxPackets |-> LONG_MAX, reuses |-> 0]
    /\ result = 0
    /\ rs = NoRs
    /\ wpc = IdleW
    /\ charsToRead = ZeroW
    /\ charsRead = ZeroW
    /\ sk = NoSk
    /\ hist = NoHist
    /\ \E shiftPackets \in [Ports -> ShiftValues], handlePadding \in {0, 1} :
          shf = [pc |-> "call", shiftPackets |-> shiftPackets,
                handlePadding |-> handlePadding, before |-> inputData,
                ret |-> 0]

\* one call lofar_udp_shift_remainder_packets(reader, shiftPackets, handlePadding)
ShCall ==
    /\ shf.pc = "call"
    /\ LET r == ShiftRemainder(shf.shiftPackets, shf.handlePadding, packetsPerIteration)
       IN  /\ inputData' = r.data
           /\ inputDataOffset' = r.off
           /\ shf' = [shf EXCEPT !.pc = IF r.ub THEN "ub" ELSE "done", !.ret = r.ret]
    /\ UNCHANGED << numPorts, cfgPPI, replayDroppedPackets, stream, filePos,
                    portLastDroppedPackets, packetsPerIteration, packetsRead,
                    packetsReadMax, lastPacket, inputDataReady, outputDataReady,
                    pc, call, result, rs, wpc, charsToRead, charsRead, sk, hist,
                    tr, own, chk, cli, hd >>

ShNext == ShCall

SpecShift == ShInit /\ [][ShNext]_vars

\* the call came back and is the one read_step makes (line 1556): the last
\* dropped packets of each port, none negative and none above the window,
\* with handlePadding 1
ReadStepShift ==
    /\ shf.pc = "done"
    /\ shf.handlePadding = 1
    /\ \A p \in Ports : shf.shiftPackets[p] >= 0 /\ shf.shiftPackets[p] <= cfgPPI

\* the guard slot and the head of port p hold the tail of the window before
TailKept(p) ==
    /\ inputData[p][-1] = shf.before[p][cfgPPI - shf.shiftPackets[p] - 1]
    /\ \A k \in 0 .. (shf.shiftPackets[p] - 1) :
          inputData[p][k] = shf.before[p][cfgPPI - shf.shiftPackets[p] + k]

\* C21: after the shift that read_step asks for (handlePadding 1), on every
\* port slot -1 holds the packet that was at packetsPerIteration - shift[p] - 1
\* and slots 0 .. shift[p] - 1 hold the old tail, for every shift vector, the
\* all-zero one included
C21_GuardSlotRefreshed == ReadStepShift => \A p \in Ports : TailKept(p)

\* the same for the shift vectors that ask for at least one packet
C21_RefreshedWhenShifting ==
    (ReadStepShift /\ SumShift(shf.shiftPackets, numPorts) >= 1)
        => \A p \in Ports : TailKept(p)

\* the call came back and had been asked for shifts within the window
\* (0 <= shift[p] <= packetsPerIteration on every port)
ShiftedWithin ==
    /\ shf.pc = "done"
    /\ \A p \in Ports : shf.shiftPackets[p] >= 0 /\ shf.shiftPackets[p] <= cfgPPI

CapToWindow(shiftPackets) ==
    [p \in Ports |-> IF shiftPackets[p] > cfgPPI THEN cfgPPI ELSE shiftPackets[p]]

\* the result r of a call warns about every negative entry: -1 comes back,
\* the port reads next at offset 0 and its window is as it was
NegativeShiftWarned(r) ==
    \A p \in Ports :
        shf.shiftPackets[p] < 0 =>
            /\ r.ret = -1
            /\ r.off[p] = 0
            /\ \A k \in 0 .. (cfgPPI - 1) : r.data[p][k] = inputData[p][k]

\* the result r of a call is the one of the call with the capped vector
ExcessShiftCapped(r) ==
    r = ShiftRemainder(CapToWindow(shf.shiftPackets), shf.handlePadding,
                       packetsPerIteration)

\* C24: lofar_udp_shift_remainder_packets never returns a value above 0; a
\* negative shift[p] gives -1, offset 0 on that port and no packet moved, with
\* handlePadding 0 and 1; a shift[p] above packetsPerIteration acts as
\* packetsPerIteration
C24_ShiftNeverFatal ==
    [][ShCall =>
        LET r == ShiftRemainder(shf.shiftPackets, shf.handlePadding,
                                packetsPerIteration)
        IN  /\ r.ret <= 0
            /\ NegativeShiftWarned(r)
            /\ ExcessShiftCapped(r)]_vars


(* ====================================================================== *)
(* Further properties of the reader (specification Spec)                   *)
(* ====================================================================== *)
\* C23: without replay of dropped packets, whenever the kernel is about to
\* run the packet that starts two packet lengths before index 0 is all zero
\* on every port, whatever setup, steps, shifts and reuses came before
C23_ZeroPacketKept ==
    (pc = "kernel" /\ replayDroppedPackets = 0)
        => \A p \in Ports : inputData[p][-2] = 0

\* the kernel is about to run after a reuse and a shift that kept packets
C23_Witness ==
    /\ pc = "kernel" /\ replayDroppedPackets = 0
    /\ call.reuses > 0
    /\ hist.shifted
    /\ \E p \in Ports : inputDataOffset[p] > 0
    /\ \A p \in Ports : inputData[p][-2] = 0 /\ inputData[p][-1] # 0


(* ====================================================================== *)
(* The reader on streams with one long gap behind the first packet, as a   *)
(* recording that lost a burst of packets: same steps, other inputs.       *)
(* ====================================================================== *)
\* up to MaxGap packets are missing behind the first one
MaxGap == 4

GapStreams ==
    { Without(FullStream(Base, MaxPackets), (Base + 1) .. (Base + g)) :
        g \in 0 .. MaxGap }

\* no target, or the last packet of the recording
GapTargets == {-1, Base + MaxPackets - 1}

GapInit ==
    /\ tr = Off /\ own = Off /\ chk = Off /\ cli = Off /\ shf = Off /\ hd = Off
    /\ \E n \in 1 .. MaxPorts, ppi \in PPIs, target \in GapTargets, replay \in {0, 1} :
          \E streams \in [0 .. (n - 1) -> GapStreams] :
              InitWith(n, ppi, replay, streams, target, -1)

SpecGaps == GapInit /\ [][Next]_vars

\* lofar_udp_skip_to_packet is about to call lofar_udp_reader_read_step
ScanReadIssued == pc = "rs_begin" /\ rs.caller = "scan"

\* C25: whenever lofar_udp_skip_to_packet issues a read, the deficit of every
\* port lies in 0 .. packetsPerIteration
C25_DeficitClamped ==
    ScanReadIssued =>
        \A p \in Ports :
            /\ portLastDroppedPackets[p] >= 0
            /\ portLastDroppedPackets[p] <= packetsPerIteration

\* the lower half of C25: no deficit is negative when a read is issued
C25_DeficitNotNegative ==
    ScanReadIssued => \A p \in Ports : portLastDroppedPackets[p] >= 0


\* the bytes line 447 asks of the port being aligned
RefillBytes == (packetsPerIteration - sk.packetShift) * portPacketLength[sk.port]

\* the stream of the port being aligned cannot fill its window
RefillShort ==
    /\ pc = "sk_shift"
    /\ RefillBytes > 0
    /\ Remaining(sk.port) < RefillBytes

\* skip_to_packet has returned a fatal value to setup or to reuse
SkipFatal == pc \in {"after_skip", "after_align"} /\ sk.returnVal > 0

\* C31: when the stream of a port cannot supply the bytes that refill its
\* window after the shift of the alignment, skip_to_packet returns 1, and
\* every fatal return of skip_to_packet makes setup return no reader and
\* reuse return a value above 0.
C31_ShortRefillIsFatal ==
    [][/\ (RefillShort /\ pc' # "ub") =>
            (pc' = AfterSkip(sk.caller) /\ sk'.returnVal = 1)
       /\ SkipFatal =>
            /\ pc' = IF call.op = "setup" THEN "null" ELSE "fatal"
            /\ result' > 0]_vars

\* a call ended fatally with a port whose file is used up and whose window
\* still ends with the packet that the shift copied to its front
C31_Witness ==
    /\ pc \in {"null", "fatal"} /\ result > 0
    /\ \E p \in Ports :
         /\ inputDataOffset[p] > 0
         /\ filePos[p] = FileLen(p)
         /\ inputData[p][cfgPPI - 1] =
               inputData[p][(inputDataOffset[p] \div portPacketLength[p]) - 1]

\* C32: between the calls of a session packetsRead never exceeds
\* packetsReadMax, for any sequence of steps and reuse calls, a reuse with a
\* maximum below the configured packetsPerIteration included.
C32_ReadWithinCap == pc = "ready" => packetsRead <= packetsReadMax

\* C33: in every state the packetsPerIteration of the session lies between
\* 0 and the configured packetsPerIteration, the packet-cap branch of
\* read_step included.
C33_WindowWithinConfigured ==
    0 <= packetsPerIteration /\ packetsPerIteration <= cfgPPI

\* the packet index of the first guess of the port being aligned (line 365)
FirstGuessIndex ==
    lastPacket - GuessBase(PacketAt(sk.port, 0), lastPacket, packetsPerIteration)

\* the first guess of a port is about to be read
FirstGuessDue == pc = "sk_align" /\ sk.port < numPorts

\* the search of a port has read the packet at index sk.nextOff (lines 389
\* and 414) and has not left the loop
SearchProbed == pc = "sk_search"

\* C35: every packet index that skip_to_packet reads, the first guess and
\* each index of the binary search, lies in [0, packetsPerIteration), on
\* every port and for every loss pattern.
C35_ProbesInsideWindow ==
    /\ FirstGuessDue =>
          (FirstGuessIndex >= 0 /\ FirstGuessIndex < packetsPerIteration)
    /\ SearchProbed => (sk.nextOff >= 0 /\ sk.nextOff < packetsPerIteration)

\* the binary search of a port is in its loop (line 393) with a target above
\* every packet of the window: the window is not refilled inside the loop,
\* the target only grows (line 430) and the index never exceeds
\* packetsPerIteration (line 410), so no read inside the window ends the loop
SearchLost ==
    /\ pc \in {"sk_search", "diverged"}
    /\ sk.guessPacket # lastPacket
    /\ \A k \in 0 .. (packetsPerIteration - 1) :
          inputData[sk.port][k] < lastPacket

\* C36: skip_to_packet always terminates, whatever the losses and the
\* target: the binary search with its retry is never left in a loop that no
\* packet of the window can end.
C36_SearchCanEnd == ~SearchLost

\* the kernel is about to process the window of the session
KernelDue ==
    pc = "kernel" /\ NeedsKernel(outputDataReady, packetsPerIteration)

AfterExhausted ==
    /\ call.op = "step"
    /\ hist.prevHitEnd
    /\ packetsPerIteration = 0
    /\ hist.readSteps = 0

\* C38: once a step has left packetsPerIteration at 0 because the input is
\* exhausted, no later step returns 0; every later step returns a terminal
\* code or a fatal value, runs no kernel and leaves packetsRead alone
C38_ExhaustedStaysExhausted ==
    AfterExhausted =>
        /\ ~hist.kernelRan
        /\ packetsRead = hist.readBefore
        /\ pc = "ready" => result # 0

\* port p was asked to keep a tail inside the window, and the call came back
ShiftAsked(p) ==
    /\ shf.pc = "done"
    /\ shf.shiftPackets[p] > 0
    /\ shf.shiftPackets[p] <= cfgPPI

\* the head of port p holds the old tail and the next read lands behind it
TailMoved(p) ==
    /\ \A k \in 0 .. (shf.shiftPackets[p] - 1) :
          inputData[p][k] = shf.before[p][cfgPPI - shf.shiftPackets[p] + k]
    /\ inputDataOffset[p] = shf.shiftPackets[p] * portPacketLength[p]

\* C39: the shift treats the ports independently: every port asked for a
\* shift above 0 has its tail moved to the start and its offset set behind
\* it, whatever the other ports ask for, negative values that bring the sum
\* of all shifts to zero or below included
C39_PortsIndependent == \A p \in Ports : ShiftAsked(p) => TailMoved(p)

\* the bytes port p asks for when it is the first worker to run: the request
\* computed from the window read_step set before the parallel loop
RequestedFirst(p) ==
    IF SkipsRead(portLastDroppedPackets[p], hist.ppiBefore) THEN 0
    ELSE CharsToRead(p, hist.ppiBefore, portLastDroppedPackets[p])

\* the bytes the file of port p held when the loop began
HeldAtFanout(p) == FileLen(p) - (filePos[p] - charsRead[p])

\* C30: the workers of read_step do not depend on one another: for the same
\* state before the loop and the same streams, the bytes each port asks for
\* and takes are the same for every interleaving of the workers, namely
\* those it asks for and takes when it runs first.
C30_RequestsIndependentOfOrder ==
    (pc = "rs_fanout" /\ WorkersDone) =>
        \A p \in Ports :
            /\ charsToRead[p] = RequestedFirst(p)
            /\ charsRead[p] = Min(RequestedFirst(p), HeldAtFanout(p))

(* ====================================================================== *)
(* lofar_udp_reader_read_step called on its own: the window of every port  *)
(* is full, the packets its kernel run found missing are drawn freely.     *)
(* ====================================================================== *)
\* the packets the file of a port still holds behind the window
HeldBehind == {1, MaxPPI + 1}

\* the first ppi packets of a recording, behind two empty guard slots
FirstWindow(ppi) == [k \in -2 .. (ppi - 1) |-> IF k < 0 THEN 0 ELSE Base + k]

RsInit ==
    /\ tr = Off /\ own = Off /\ chk = Off /\ cli = Off /\ shf = Off /\ hd = Off
    /\ numPorts \in 1 .. MaxPorts
    /\ cfgPPI \in PPIs
    /\ replayDroppedPackets \in {0, 1}
    /\ \E held \in [Ports -> HeldBehind] :
          stream = [p \in Ports |-> FullStream(Base, cfgPPI + held[p])]
    /\ filePos = [p \in Ports |-> cfgPPI * portPacketLength[p]]
    /\ inputData = [p \in Ports |-> FirstWindow(cfgPPI)]
    /\ inputDataOffset = [p \in Ports |-> 0]
    /\ portLastDroppedPackets \in [Ports -> ShiftValues]
    /\ packetsPerIteration = cfgPPI
    /\ packetsRead = cfgPPI
    /\ packetsReadMax = LONG_MAX
    /\ lastPacket = Base + cfgPPI - 1
    /\ inputDataReady = 0
    /\ outputDataReady = 1
    /\ pc = "rs_begin"
    /\ call = [op |-> "step", startingPacket |-> -1, packetsReadMax |-> -1,
               localMaxPackets |-> LONG_MAX, reuses |-> 0]
    /\ result = 0
    /\ rs = [NoRs EXCEPT !.caller = "step"]
    /\ wpc = IdleW
    /\ charsToRead = ZeroW
    /\ charsRead = ZeroW
    /\ sk = NoSk
    /\ hist = NoHist

RsNext ==
    \/ ReadStepBegin
    \/ \E p \in Ports : PortCheck(p)
    \/ \E p \in Ports : PortRead(p)
    \/ \E p \in Ports : PortCritical(p)
    \/ ReadStepEnd

SpecReadStep == RsInit /\ [][RsNext]_vars

\* the worker of port p is about to issue its read (line 1580)
ReadIssued(p) == pc = "rs_fanout" /\ wpc[p] = "read"

\* C34: every read that read_step issues lands inside the window of its
\* port, whatever lastDroppedPackets holds on entry (positive, zero or
\* negative): inputDataOffset[p] >= 0 and inputDataOffset[p] plus the bytes
\* asked for is at most packetsPerIteration * portPacketLength[p].
C34_ReadInsideWindow ==
    \A p \in Ports :
        ReadIssued(p) =>
            /\ inputDataOffset[p] >= 0
            /\ inputDataOffset[p]
                  + CharsToRead(p, packetsPerIteration, portLastDroppedPackets[p])
                 <= cfgPPI * portPacketLength[p]

(* ====================================================================== *)
(* The first headers of the ports: lofar_udp_parse_headers and the choice  *)
(* of the ports that hold the requested beamlets (setup, lines 1025-1100). *)
(* A header is the record of the fields the parser reads.                  *)
(* ====================================================================== *)
\* ports of a session whose beamlets are selected
MaxHdPorts == 3
\* a port carries 2 .. MaxPortBeamlets beamlets
MaxPortBeamlets == 3
\* lowest RSP version accepted
UDPCURVER == 3
\* highest sequence number of the 200 MHz clock
RSPMAXSEQ == 195312
\* most beamlets a port can carry
UDPMAXBEAM == 244
\* time slices of a packet
UDPNTIMESLICE == 16
\* bytes of a packet header
UDPHDRLEN == 16

\* a header that passes every check
GoodHeader(clockBit, bitMode, nBeam, padding1) ==
    [rspVer |-> UDPCURVER, time |-> LFREPOCH, seq |-> RSPMAXSEQ,
     nBeam |-> nBeam, nTimeslice |-> UDPNTIMESLICE, padding0 |-> 0,
     errorBit |-> 0, bitMode |-> bitMode, padding1 |-> padding1,
     clockBit |-> clockBit]

GoodHeaders ==
    { GoodHeader(c, b, n, w) :
        c \in {0, 1}, b \in {0, 1, 2}, n \in 2 .. MaxPortBeamlets, w \in {0, 1} }

\* the good headers with one field spoiled
SpoiledHeaders ==
    UNION { { [g EXCEPT !.rspVer = UDPCURVER - 1],
              [g EXCEPT !.time = LFREPOCH - 1],
              [g EXCEPT !.seq = RSPMAXSEQ + 1],
              [g EXCEPT !.nBeam = UDPMAXBEAM + 1],
              [g EXCEPT !.nTimeslice = UDPNTIMESLICE - 1],
              [g EXCEPT !.padding0 = 1],
              [g EXCEPT !.errorBit = 1],
              [g EXCEPT !.bitMode = 3],
              [g EXCEPT !.padding1 = 2],
              [g EXCEPT !.padding1 = 3] } : g \in GoodHeaders }

\* lines 90-130 without the test of the error bit
HeaderMalformed_NoErrorBit(h) ==
    \/ h.rspVer < UDPCURVER
    \/ h.time < LFREPOCH
    \/ h.seq > RSPMAXSEQ
    \/ h.nBeam > UDPMAXBEAM
    \/ h.nTimeslice # UDPNTIMESLICE
    \/ h.padding0 # 0
    \/ h.bitMode = 3
    \/ h.padding1 > 1

\* lines 90-130: the integrity checks of one header (padding1 = 1 is the
\* replay warning and only prints a message)
HeaderMalformed(h) ==
    \/ h.rspVer < UDPCURVER
    \/ h.time < LFREPOCH
    \/ h.seq > RSPMAXSEQ
    \/ h.nBeam > UDPMAXBEAM
    \/ h.nTimeslice # UDPNTIMESLICE
    \/ h.padding0 # 0
    \/ h.errorBit # 0
    \/ h.bitMode = 3
    \/ h.padding1 > 1

\* lines 158 and 164: a limit lies on the port, counted in beamlets of the
\* port's own size
LimitOnPort(limit, port, raw) ==
    limit # 0 /\ limit < (port + 1) * raw /\ limit >= port * raw

\* lines 214-215: the length of a packet of raw beamlets
HeaderPacketLength(raw, inputBitMode) ==
    UDPHDRLEN + ((raw * inputBitMode * UDPNTIMESLICE * UDPNPOL) \div 8)

\* lines 82-83: the geometry before the first port
NoGeometry ==
    [ret |-> 0, totalRawBeamlets |-> 0, totalProcBeamlets |-> 0,
     clockBit |-> 0, inputBitMode |-> 0, cacheBitMode |-> 0,
     portRawBeamlets |-> << >>, upperBeamlets |-> << >>,
     baseBeamlets |-> << >>, portRawCumulativeBeamlets |-> << >>,
     portCumulativeBeamlets |-> << >>, portPacketLength |-> << >>]

\* lines 87-223: the loop body for one port; the k-th entry of a sequence
\* belongs to port k - 1
ParsePort(m, port, h, beamletLimits) ==
    IF HeaderMalformed(h) THEN [m EXCEPT !.ret = 1]
    ELSE IF port # 0 /\ m.clockBit # h.clockBit THEN [m EXCEPT !.ret = 1]
    ELSE
      LET raw == h.nBeam
          upper == IF LimitOnPort(beamletLimits[2], port, raw)
                   THEN beamletLimits[2] - m.totalRawBeamlets ELSE raw
          lowerHere == LimitOnPort(beamletLimits[1], port, raw)
          base == IF lowerHere THEN beamletLimits[1] - m.totalRawBeamlets ELSE 0
          proc == IF lowerHere THEN upper - beamletLimits[1] ELSE upper
          bits == ParseBitMode(h.bitMode)
          m2 == [m EXCEPT
                   !.clockBit = h.clockBit,
                   !.portRawBeamlets = Append(@, raw),
                   !.upperBeamlets = Append(@, upper),
                   !.portRawCumulativeBeamlets = Append(@, m.totalRawBeamlets),
                   !.portCumulativeBeamlets = Append(@, m.totalProcBeamlets),
                   !.baseBeamlets = Append(@, base),
                   !.totalProcBeamlets = @ + proc,
                   !.totalRawBeamlets = @ + raw,
                   !.inputBitMode = bits]
      IN  IF port # 0 /\ m.cacheBitMode # bits THEN [m2 EXCEPT !.ret = 1]
          ELSE [m2 EXCEPT
                  !.cacheBitMode = IF port = 0 THEN bits ELSE @,
                  !.portPacketLength = Append(@, HeaderPacketLength(raw, bits))]

\* lofar_udp_parse_headers(meta, header, beamletLimits) for n ports
RECURSIVE ParseFrom(_, _, _, _, _)
ParseFrom(m, port, n, header, beamletLimits) ==
    IF port >= n \/ m.ret # 0 THEN m
    ELSE ParseFrom(ParsePort(m, port, header[port], beamletLimits), port + 1, n,
                   header, beamletLimits)

ParseHeaders(n, header, beamletLimits) ==
    ParseFrom(NoGeometry, 0, n, header, beamletLimits)

\* lines 1037-1057: the last port on which the lower limit lies, else 0
LowerPort(meta, n, limit) ==
    LET on == { p \in 0 .. (n - 1) :
                  /\ limit > 0
                  /\ meta.portRawCumulativeBeamlets[p + 1] <= limit
                  /\ meta.portRawCumulativeBeamlets[p + 1]
                        + meta.portRawBeamlets[p + 1] > limit }
    IN  IF on = {} THEN 0 ELSE CHOOSE p \in on : \A q \in on : q <= p

\* lines 1037-1057: the last port on which the upper limit lies, else the
\* last port
UpperPort(meta, n, limit) ==
    LET on == { p \in 0 .. (n - 1) :
                  /\ limit > 0
                  /\ meta.portRawCumulativeBeamlets[p + 1] < limit
                  /\ meta.portRawCumulativeBeamlets[p + 1]
                        + meta.portRawBeamlets[p + 1] >= limit }
    IN  IF on = {} THEN n - 1 ELSE CHOOSE p \in on : \A q \in on : q <= p

\* the limits a session may ask for on ports with the given headers: none,
\* or lo < hi within the beamlets of the ports
RECURSIVE TotalBeamlets(_, _)
TotalBeamlets(header, n) ==
    IF n = 0 THEN 0 ELSE header[n - 1].nBeam + TotalBeamlets(header, n - 1)

BeamletLimits(header, n) ==
    { << lo, hi >> : lo \in 0 .. TotalBeamlets(header, n),
                     hi \in 0 .. TotalBeamlets(header, n) }
        \ { l \in (0 .. TotalBeamlets(header, n)) \X (0 .. TotalBeamlets(header, n)) :
              l[1] >= l[2] /\ l # << 0, 0 >> }

HdSession(n, header, limits) ==
    [pc |-> "parse", numPorts |-> n, header |-> header,
     beamletLimits |-> limits, requested |-> limits,
     metaNumPorts |-> n, meta |-> NoGeometry, ret |-> 0]

HdInit ==
    /\ ReaderOff
    /\ tr = Off /\ own = Off /\ chk = Off /\ cli = Off /\ shf = Off
    /\ \/ \E n \in 1 .. 2 :
            \E header \in [0 .. (n - 1) -> GoodHeaders \cup SpoiledHeaders] :
                hd = HdSession(n, header, << 0, 0 >>)
       \/ \E n \in 1 .. MaxHdPorts, b \in {0, 2} :
            \E beams \in [0 .. (n - 1) -> 2 .. MaxPortBeamlets] :
                LET header == [p \in 0 .. (n - 1) |-> GoodHeader(1, b, beams[p], 0)]
                IN  \E limits \in BeamletLimits(header, n) :
                        hd = HdSession(n, header, limits)

\* lines 1025-1033 and 1096-1099: the first parse, without limits
HdParse ==
    /\ hd.pc = "parse"
    /\ LET m == ParseHeaders(hd.metaNumPorts, hd.header, << 0, 0 >>)
           updateBeamlets == hd.beamletLimits[1] > 0 \/ hd.beamletLimits[2] > 0
       IN  hd' = [hd EXCEPT !.meta = m, !.ret = m.ret,
                            !.pc = IF m.ret > 0 THEN "failed"
                                   ELSE IF updateBeamlets THEN "select"
                                   ELSE "done"]
    /\ UNCHANGED << readerVars, tr, own, chk, cli, shf >>

\* lines 1035-1095: keep the ports between the two limits
HdSelect ==
    /\ hd.pc = "select"
    /\ LET lowerPort == LowerPort(hd.meta, hd.metaNumPorts, hd.beamletLimits[1])
           upperPort == UpperPort(hd.meta, hd.metaNumPorts, hd.beamletLimits[2])
           kept == (upperPort + 1) - lowerPort
           below == hd.meta.portRawCumulativeBeamlets[lowerPort + 1]
       IN  IF lowerPort > upperPort
           THEN hd' = [hd EXCEPT !.pc = "failed", !.ret = 1]
           ELSE hd' = [hd EXCEPT
                         !.pc = "reparse",
                         !.header =
                             IF lowerPort > 0
                             THEN [p \in 0 .. (hd.numPorts - 1) |->
                                     IF p < kept THEN hd.header[p + lowerPort]
                                     ELSE hd.header[p]]
                             ELSE @,
                         !.beamletLimits =
                             IF lowerPort > 0
                             THEN << @[1] - below, @[2] - below >> ELSE @,
                         !.metaNumPorts =
                             IF lowerPort # 0 \/ (upperPort + 1) # hd.numPorts
                             THEN kept ELSE @]
    /\ UNCHANGED << readerVars, tr, own, chk, cli, shf >>

\* lines 1027-1033: the second parse, with the limits
HdReparse ==
    /\ hd.pc = "reparse"
    /\ LET m == ParseHeaders(hd.metaNumPorts, hd.header, hd.beamletLimits)
       IN  hd' = [hd EXCEPT !.meta = m, !.ret = m.ret,
                            !.pc = IF m.ret > 0 THEN "failed" ELSE "done"]
    /\ UNCHANGED << readerVars, tr, own, chk, cli, shf >>

HdNext == HdParse \/ HdSelect \/ HdReparse

SpecHeaders == HdInit /\ [][HdNext]_vars

\* a call of lofar_udp_parse_headers is about to be made
ParseCall == hd.pc \in {"parse", "reparse"}

\* the faults of a header against the header of port 0, every padding bit
\* counted as a fault
FaultWithAnyPadding(h, h0) ==
    \/ h.rspVer < UDPCURVER
    \/ h.time < LFREPOCH
    \/ h.seq > RSPMAXSEQ
    \/ h.nBeam > UDPMAXBEAM
    \/ h.nTimeslice # UDPNTIMESLICE
    \/ h.padding0 # 0 \/ h.padding1 # 0
    \/ h.errorBit # 0
    \/ h.bitMode = 3
    \/ h.clockBit # h0.clockBit \/ h.bitMode # h0.bitMode

\* the same with the lowest bit of the second padding field left free
FaultBesidesReplayBit(h, h0) ==
    \/ h.rspVer < UDPCURVER
    \/ h.time < LFREPOCH
    \/ h.seq > RSPMAXSEQ
    \/ h.nBeam > UDPMAXBEAM
    \/ h.nTimeslice # UDPNTIMESLICE
    \/ h.padding0 # 0 \/ h.padding1 > 1
    \/ h.errorBit # 0
    \/ h.bitMode = 3
    \/ h.clockBit # h0.clockBit \/ h.bitMode # h0.bitMode

\* C28 as stated: lofar_udp_parse_headers fails exactly when some port's
\* header has a low version, an early timestamp, a high sequence, too many
\* beamlets, a timeslice count other than 16, any reserved padding bit set,
\* the error bit set, bit mode 3, or a clock bit or bit mode other than
\* port 0's.
C28_FailsOnAnyPaddingBit ==
    [][ParseCall =>
          (hd'.ret = 1 <=>
              \E p \in 0 .. (hd.metaNumPorts - 1) :
                  FaultWithAnyPadding(hd.header[p], hd.header[0]))]_vars

\* C28: lofar_udp_parse_headers fails exactly when some port's header has a
\* low version, an early timestamp, a high sequence, too many beamlets, a
\* timeslice count other than 16, a reserved padding bit other than the
\* replay warning bit set, the error bit set, bit mode 3, or a clock bit or
\* bit mode other than port 0's; packet lengths that differ between the
\* ports never make it fail.
C28_FailsExactlyOnFaults ==
    [][ParseCall =>
          (hd'.ret = 1 <=>
              \E p \in 0 .. (hd.metaNumPorts - 1) :
                  FaultBesidesReplayBit(hd.header[p], hd.header[0]))]_vars

\* two ports with packets of different lengths, the replay warning bit set on
\* one of them, were accepted
C28_Witness ==
    /\ hd.pc = "done" /\ hd.ret = 0 /\ hd.metaNumPorts = 2
    /\ hd.header[1].padding1 = 1
    /\ hd.meta.portPacketLength[1] # hd.meta.portPacketLength[2]

\* the beamlets the kept ports hand to the kernel
RECURSIVE KeptBeamlets(_, _)
KeptBeamlets(meta, n) ==
    IF n = 0 THEN 0
    ELSE (meta.upperBeamlets[n] - meta.baseBeamlets[n]) + KeptBeamlets(meta, n - 1)

\* setup ended well for limits lo < hi within the raw beamlets
LimitsApplied == hd.pc = "done" /\ hd.requested[1] < hd.requested[2]

\* C29: for beamletLimits [lo, hi) with 0 <= lo < hi <= total raw beamlets,
\* after setup totalProcBeamlets is hi - lo and the sum over the kept ports
\* of upperBeamlets[p] - baseBeamlets[p] is hi - lo.
C29_SelectsRequestedBeamlets ==
    LimitsApplied =>
        /\ hd.meta.totalProcBeamlets = hd.requested[2] - hd.requested[1]
        /\ KeptBeamlets(hd.meta, hd.metaNumPorts) = hd.requested[2] - hd.requested[1]

TypeOK ==
    /\ numPorts \in 1 .. MaxPorts
    /\ cfgPPI \in PPIs
    /\ pc \in {"rs_begin", "rs_fanout", "setup_after_read", "scan_after_read",
               "step_after_read", "sk_check", "sk_init", "sk_scan", "sk_while",
               "sk_align", "sk_search", "sk_shift", "after_skip", "after_align",
               "align", "kernel", "step_ret", "ready", "null", "fatal", "ub",
               "diverged"}

====
